---- MODULE Spec2Model ----
(***************************************************************************)
(* A model of iso8601.py: time units, time representations, the merge      *)
(* algebra, calendar arithmetic and the format machine.                    *)
(*                                                                         *)
(* Python values are records.  A time unit, an int and None all carry the  *)
(* fields kind, present, value, signed; a time representation carries cls  *)
(* and elements.  The outcome of a call is a record with a status ("ok" or *)
(* the name of the exception raised) and a value.  Every object carries an *)
(* id: operations work on values, an object passed on unchanged keeps its  *)
(* id, a new object has id 0, and an assignment to an attribute or a slot  *)
(* of an object changes the value and keeps the id.  The heap of the       *)
(* client maps the ids of its objects to their current values.             *)
(***************************************************************************)
EXTENDS Integers, Sequences, FiniteSets, TLC

VARIABLES call, ret, heap, objs

vars == <<call, ret, heap, objs>>

(***************************************************************************)
(* Bounds of the checked instances.                                        *)
(***************************************************************************)
MaxDurYears == 1
MaxDurMonths == 2
MaxDurDays == 2
MaxProbe == 370
MaxRecurrences == 2
MaxObjs == 2
MaxWeeks == 4
MaxDamaged == 10
MaxThreads == 2
MaxRun == 4
MaxRounds == 3

YearSamples == {1983, 1984}
DaySamples == {1, 28, 29, 30, 31}
DurMonthSamples == (0..MaxDurMonths) \cup {11, 13}
DurDaySamples == (0..MaxDurDays) \cup {29, 30, 31, 60}
ProbeSamples ==
  (-MaxProbe..MaxProbe) \cup {9999, 10000, -9999, -10000}

(***************************************************************************)
(* Python values.                                                          *)
(***************************************************************************)
\* The field id names the object in the heap; 0 is an object that no
\* variable of the client holds yet (a literal or a temporary).
None ==
  [kind |-> "NoneType", present |-> FALSE, value |-> 0, signed |-> FALSE,
   id |-> 0]

PyInt(n) ==
  [kind |-> "int", present |-> TRUE, value |-> n, signed |-> FALSE, id |-> 0]

MkUnit(k, p, v, s) ==
  [kind |-> k, present |-> p, value |-> v, signed |-> s, id |-> 0]

\* Decimal("w.f") for w >= 0: value is the int part and frac the digits
\* after the point, so that the exponent is -Len(frac).
PyDecimal(w, f) ==
  [kind |-> "Decimal", present |-> TRUE, value |-> w, signed |-> FALSE,
   id |-> 0, frac |-> f]

\* A value, or a unit that holds one, with digits after the point.
IsDecimal(x) == "frac" \in DOMAIN x

IsRep(x) == "cls" \in DOMAIN x

ClassOf(x) == IF IsRep(x) THEN x.cls ELSE x.kind

Ok(v) == [status |-> "ok", val |-> v]

Err(e) == [status |-> e, val |-> None]

\* An exception raised while evaluating r propagates; otherwise the
\* computation continues with the value of r.
Then(r, continue(_)) == IF r.status # "ok" THEN r ELSE continue(r.val)

\* The classes of the module with all their base classes (the MRO as a set).
Bases(c) ==
  CASE c = "Year" -> {"Year", "TimeUnit"}
    [] c = "Month" -> {"Month", "TimeUnit"}
    [] c = "Week" -> {"Week", "TimeUnit"}
    [] c = "Day" -> {"Day", "TimeUnit"}
    [] c = "DayOfYear" -> {"DayOfYear", "Day", "TimeUnit"}
    [] c = "DayOfMonth" -> {"DayOfMonth", "Day", "TimeUnit"}
    [] c = "DayOfWeek" -> {"DayOfWeek", "Day", "TimeUnit"}
    [] c = "Hour" -> {"Hour", "TimeUnit"}
    [] c = "Minute" -> {"Minute", "TimeUnit"}
    [] c = "Second" -> {"Second", "TimeUnit"}
    [] c = "Cardinal" -> {"Cardinal", "TimeUnit"}
    [] c = "Years" -> {"Years", "Cardinal", "Year", "TimeUnit"}
    [] c = "Months" -> {"Months", "Cardinal", "Month", "TimeUnit"}
    [] c = "Weeks" -> {"Weeks", "Cardinal", "Week", "TimeUnit"}
    [] c = "Days" -> {"Days", "Cardinal", "Day", "TimeUnit"}
    [] c = "Hours" -> {"Hours", "Cardinal", "Hour", "TimeUnit"}
    [] c = "Minutes" -> {"Minutes", "Cardinal", "Minute", "TimeUnit"}
    [] c = "Seconds" -> {"Seconds", "Cardinal", "Second", "TimeUnit"}
    [] c = "Recurrences" -> {"Recurrences", "Cardinal", "TimeUnit"}
    [] c = "TimePoint" -> {"TimePoint", "TimeRep"}
    [] c = "Date" -> {"Date", "TimePoint", "TimeRep"}
    [] c = "CalendarDate" -> {"CalendarDate", "Date", "TimePoint", "TimeRep"}
    [] c = "OrdinalDate" -> {"OrdinalDate", "Date", "TimePoint", "TimeRep"}
    [] c = "WeekDate" -> {"WeekDate", "Date", "TimePoint", "TimeRep"}
    [] c = "UTCOffset" -> {"UTCOffset", "TimePoint", "TimeRep"}
    [] c = "UTC" -> {"UTC", "UTCOffset", "TimePoint", "TimeRep"}
    [] c = "Time" -> {"Time", "TimePoint", "TimeRep"}
    [] c = "DateTime" -> {"DateTime", "Date", "Time", "TimePoint", "TimeRep"}
    [] c = "Duration" -> {"Duration", "TimeRep"}
    [] c = "WeeksDuration" -> {"WeeksDuration", "Duration", "TimeRep"}
    [] c = "TimeInterval" ->
         {"TimeInterval", "DateTime", "Date", "Time", "TimePoint", "TimeRep"}
    [] c = "RecurringTimeInterval" ->
         {"RecurringTimeInterval", "TimeInterval", "DateTime", "Date", "Time",
          "TimePoint", "TimeRep"}
    [] OTHER -> {c}

IsInstance(x, c) == c \in Bases(ClassOf(x))

IsUnit(x) == IsInstance(x, "TimeUnit")

IsCardinalKind(k) == "Cardinal" \in Bases(k)

\* bool(x): a unit is true when its value is not None (__nonzero__); a
\* representation defines neither __nonzero__ nor __len__ and is always true.
Truthy(x) ==
  IF IsRep(x) THEN TRUE
  ELSE IF x.kind = "NoneType" THEN FALSE
  ELSE IF x.kind = "int" THEN x.value # 0
  ELSE x.present

Abs(n) == IF n < 0 THEN -n ELSE n

Min(a, b) == IF a <= b THEN a ELSE b

(***************************************************************************)
(* Time units.                                                             *)
(***************************************************************************)
NoMax == -1

\* The class attribute range: inclusive bounds on the absolute value.
RangeMin(k) ==
  LET min(mro) == IF "Month" \in mro \/ "Week" \in mro THEN 1
                  ELSE IF k \in {"DayOfYear", "DayOfMonth", "DayOfWeek"} THEN 1
                  ELSE 0
  IN min(Bases(k))

RangeMax(k) ==
  LET max(mro) == CASE "Year" \in mro -> 9999
                    [] "Month" \in mro -> 12
                    [] "Week" \in mro -> 53
                    [] k = "DayOfYear" -> 366
                    [] k = "DayOfMonth" -> 31
                    [] k = "DayOfWeek" -> 7
                    [] "Hour" \in mro -> 24
                    [] "Minute" \in mro -> 59
                    [] "Second" \in mro -> 60
                    [] OTHER -> NoMax
  IN max(Bases(k))

\* minvalue <= v and (maxvalue is None or v <= maxvalue).
InRange(minvalue, maxvalue, v) ==
  minvalue <= v /\ (maxvalue = NoMax \/ v <= maxvalue)

isvalidNoAbs(u) ==
  ~u.present \/ InRange(RangeMin(u.kind), RangeMax(u.kind), u.value)

isvalid(u) ==
  ~u.present \/ InRange(RangeMin(u.kind), RangeMax(u.kind), Abs(u.value))

\* TimeUnit.__init__(value, ordinal, signed) for a value that is None, an
\* int or another unit.
TimeUnitInit(k, value, ordinal, signed) ==
  IF IsRep(value) THEN Err("InvalidTimeUnit")
  ELSE
  LET checked(u) == IF ordinal /\ ~isvalid(u) THEN Err("InvalidTimeUnit")
                    ELSE Ok(u)
  IN IF ~(value.kind \in {"NoneType", "int"} \/ IsUnit(value))
     THEN Err("InvalidTimeUnit")
     ELSE checked(IF value.kind \in {"NoneType", "int"}
                  THEN MkUnit(k, value.present, value.value, signed)
                  ELSE MkUnit(k, value.present, value.value, value.signed))

\* value < 0 as Python 2 evaluates it: TimeUnit.__lt__ compares the unit's
\* value, and None is less than every int; an object without __lt__ is not
\* less than an int.
LessThanZero(value) ==
  IF IsRep(value) THEN FALSE
  ELSE IF value.kind = "int" THEN value.value < 0
  ELSE IF value.present THEN value.value < 0
  ELSE TRUE

\* The test of Cardinal.__init__: value is not None and value < 0.
CardinalRejects(value) ==
  ~(~IsRep(value) /\ value.kind = "NoneType") /\ LessThanZero(value)

\* cls(value, signed=signed) for a unit class: Cardinal.__init__ raises
\* ValueError or calls TimeUnit.__init__ with ordinal=False; the other
\* classes inherit TimeUnit.__init__, where ordinal defaults to True.
UnitInit(k, value, signed) ==
  LET init(cardinal) ==
        IF cardinal /\ CardinalRejects(value) THEN Err("ValueError")
        ELSE TimeUnitInit(k, value, ~cardinal, signed)
  IN init(IsCardinalKind(k))

\* cls(value) for a unit class.
NewUnit(k, value) == UnitInit(k, value, FALSE)

\* cls(value, signed=signed) for a Decimal value: the unit holds the
\* Decimal, and a class that is not a Cardinal checks it against its range.
DecimalInit(k, value, signed) ==
  LET whole == Abs(value.value)
      more == \E j \in 1..Len(value.frac) : value.frac[j] # "0"
      valid == /\ RangeMin(k) <= whole
               /\ \/ RangeMax(k) = NoMax
                  \/ whole < RangeMax(k)
                  \/ whole = RangeMax(k) /\ ~more
  IN IF ~IsCardinalKind(k) /\ ~valid THEN Err("InvalidTimeUnit")
     ELSE Ok([kind |-> k, present |-> TRUE, value |-> value.value,
              signed |-> signed, id |-> 0, frac |-> value.frac])

\* int(unit): None counts as 0.
IntOf(u) == IF u.present THEN u.value ELSE 0

(***************************************************************************)
(* Calendar kernel.                                                        *)
(***************************************************************************)
leap_year(year) ==
  (year % 400 = 0) \/ (year % 4 = 0 /\ year % 100 # 0)

DaysTable ==
  << <<31, 28, 31, 30, 31, 30, 30, 31, 30, 31, 30, 31>>,
     <<31, 29, 31, 30, 31, 30, 30, 31, 30, 31, 30, 31>> >>

days_in_month(year, month) ==
  IF ~(1 <= month /\ month <= 12) THEN Err("IndexError")
  ELSE Ok(PyInt(DaysTable[IF leap_year(year) THEN 2 ELSE 1][month]))

\* days_in_month for a month known to be in 1..12.
dim(year, month) == days_in_month(year, month).val.value

divmod_1(a, b) == [q |-> (a - 1) \div b, r |-> ((a - 1) % b) + 1]

(***************************************************************************)
(* Time representations (by value).                                        *)
(***************************************************************************)
\* A new representation object; like a unit it carries the field id.
MkRep(c, elts) == [cls |-> c, elements |-> elts, id |-> 0]

\* ensure_class(obj, cls) for a unit class; cls = "" stands for cls None.
ensure_class(obj, c) ==
  IF c = "" \/ IsInstance(obj, c) THEN Ok(obj) ELSE NewUnit(c, obj)

\* map(ensure_class, args, units) of the units decorator: the shorter list
\* is padded with None, and the first failing coercion raises.
RECURSIVE MapUnits(_, _, _)
MapUnits(args, classes, i) ==
  IF i > Len(args) /\ i > Len(classes) THEN Ok(<<>>)
  ELSE Then(ensure_class(IF i <= Len(args) THEN args[i] ELSE None,
                         IF i <= Len(classes) THEN classes[i] ELSE ""),
            LAMBDA e : Then(MapUnits(args, classes, i + 1),
                            LAMBDA rest : Ok(<<e>> \o rest)))

units(args, classes) == MapUnits(args, classes, 1)

\* The loop of TimeRep.__init__: TRUE when a present element follows an
\* omitted one.
RECURSIVE InvalidReduction(_, _, _)
InvalidReduction(elements, i, omitted) ==
  IF i > Len(elements) THEN FALSE
  ELSE IF omitted
       THEN IF Truthy(elements[i]) THEN TRUE
            ELSE InvalidReduction(elements, i + 1, omitted)
  ELSE InvalidReduction(elements, i + 1, ~Truthy(elements[i]))

TimeRepInitAll(c, elements, unchecked) ==
  IF InvalidReduction(elements \o unchecked, 1, FALSE) THEN Err("ValueError")
  ELSE Ok(MkRep(c, elements \o unchecked))

TimeRepInit(c, elements, unchecked) ==
  IF InvalidReduction(elements, 1, FALSE) THEN Err("ValueError")
  ELSE Ok(MkRep(c, elements \o unchecked))

\* A constructor decorated with @units(classes) whose body is
\* TimeRep.__init__(self, args).
UnitsInit(c, args, classes) ==
  Then(units(args, classes), LAMBDA u : TimeRepInit(c, u, <<>>))

CalendarDateUnits == <<"Year", "Month", "Day">>

CalendarDate(args) == UnitsInit("CalendarDate", args, CalendarDateUnits)

OrdinalDate(args) == UnitsInit("OrdinalDate", args, <<"Year", "Day">>)

WeekDate(args) == UnitsInit("WeekDate", args, <<"Year", "Week", "Day">>)

UTCOffset(args) == UnitsInit("UTCOffset", args, <<"Hour", "Minute">>)

utc == MkRep("UTC", <<PyInt(0), PyInt(0)>>)

DurationUnits ==
  <<"Years", "Months", "Days", "Hours", "Minutes", "Seconds">>

Duration(args) == UnitsInit("Duration", args, DurationUnits)

WeeksDuration(args) == UnitsInit("WeeksDuration", args, <<"Weeks">>)

\* Time(hour, minute, second, offset): the offset is coerced with
\* UTCOffset(offset) unless it already is one, and is not part of the check.
Time(args) ==
  Then(units(SubSeq(args, 1, Min(Len(args), 3)),
             <<"Hour", "Minute", "Second">>),
       LAMBDA u :
         Then(IF Len(args) >= 4 /\ IsInstance(args[4], "UTCOffset")
              THEN Ok(args[4])
              ELSE UTCOffset(IF Len(args) >= 4 THEN <<args[4]>>
                             ELSE <<None>>),
              LAMBDA o : TimeRepInit("Time", u, <<o>>)))

\* DateTime(date, time) for a date that is a Date; a time that is not a Time
\* is coerced with Time(time).
DateTime(date, time) ==
  Then(IF IsInstance(time, "Time") THEN Ok(time) ELSE Time(<<time>>),
       LAMBDA t : TimeRepInit("DateTime", <<date, t>>, <<>>))

\* TimeRep.__getattr__(name), the name given as the class it matches: the
\* first element with that class in its MRO, else the first true attribute
\* of a nested representation.
RECURSIVE GetAttr(_, _)
GetAttr(rep, name) ==
  LET direct == {i \in 1..Len(rep.elements) :
                   IsInstance(rep.elements[i], name)}
      nested == {i \in 1..Len(rep.elements) :
                   /\ IsRep(rep.elements[i])
                   /\ GetAttr(rep.elements[i], name).status = "ok"
                   /\ Truthy(GetAttr(rep.elements[i], name).val)}
      least(S) == CHOOSE i \in S : \A j \in S : i <= j
  IN IF direct # {} THEN Ok(rep.elements[least(direct)])
     ELSE IF nested # {}
          THEN GetAttr(rep.elements[least(nested)], name)
     ELSE Err("AttributeError")

\* iter(rep): the units of the representation, nested ones flattened.
RECURSIVE Flatten(_)
Flatten(rep) ==
  LET RECURSIVE go(_)
      go(i) == IF i > Len(rep.elements) THEN <<>>
               ELSE (IF IsRep(rep.elements[i]) THEN Flatten(rep.elements[i])
                     ELSE <<rep.elements[i]>>) \o go(i + 1)
  IN go(1)

\* a == b for two units or ints (TimeUnit.__eq__ and its reflection): the
\* values are compared when one operand is an int or an instance of the
\* other's class; otherwise Python compares identities.
UnitEq(a, b) ==
  IF a.kind = "NoneType" \/ b.kind = "NoneType"
  THEN a.kind = "NoneType" /\ b.kind = "NoneType"
  ELSE IF a.kind = "int" \/ b.kind = "int"
       THEN a.present = b.present /\ a.value = b.value
  ELSE IF IsInstance(b, a.kind) \/ IsInstance(a, b.kind)
       THEN a.present = b.present /\ a.value = b.value
  ELSE FALSE

\* TimeRep.__eq__: all(map(eq, self, other)), the shorter padded with None.
RepEq(a, b) ==
  LET fa == Flatten(a)
      fb == Flatten(b)
      n == IF Len(fa) >= Len(fb) THEN Len(fa) ELSE Len(fb)
      at(f, i) == IF i <= Len(f) THEN f[i] ELSE None
  IN \A i \in 1..n : UnitEq(at(fa, i), at(fb, i))

\* a == b for any two values of the library.
PyEq(a, b) ==
  IF IsRep(a) /\ IsRep(b) THEN RepEq(a, b)
  ELSE IF IsRep(a) \/ IsRep(b) THEN FALSE
  ELSE UnitEq(a, b)

(***************************************************************************)
(* The merge algebra.  A merge returns Ok(None) when no rule applies.      *)
(***************************************************************************)
TimeInterval(args) ==
  IF Len(args) > 2 THEN Err("AssertionError")
  ELSE TimeRepInit("TimeInterval", args, <<>>)

RecurringTimeInterval(args) ==
  Then(ensure_class(IF Len(args) >= 1 THEN args[1] ELSE None, "Recurrences"),
       LAMBDA first :
         IF Len(args) > 3 THEN Err("AssertionError")
         ELSE TimeRepInit("RecurringTimeInterval",
                          <<first>> \o SubSeq(args, 2, Len(args)), <<>>))

\* __mro__ of the representation classes.
Mro(c) ==
  CASE c = "RecurringTimeInterval" ->
         <<"RecurringTimeInterval", "TimeInterval", "DateTime", "Date",
           "Time", "TimePoint", "TimeRep">>
    [] c = "TimeInterval" ->
         <<"TimeInterval", "DateTime", "Date", "Time", "TimePoint", "TimeRep">>
    [] c = "DateTime" -> <<"DateTime", "Date", "Time", "TimePoint", "TimeRep">>
    [] c = "CalendarDate" -> <<"CalendarDate", "Date", "TimePoint", "TimeRep">>
    [] c = "OrdinalDate" -> <<"OrdinalDate", "Date", "TimePoint", "TimeRep">>
    [] c = "WeekDate" -> <<"WeekDate", "Date", "TimePoint", "TimeRep">>
    [] c = "Date" -> <<"Date", "TimePoint", "TimeRep">>
    [] c = "Time" -> <<"Time", "TimePoint", "TimeRep">>
    [] c = "UTC" -> <<"UTC", "UTCOffset", "TimePoint", "TimeRep">>
    [] c = "UTCOffset" -> <<"UTCOffset", "TimePoint", "TimeRep">>
    [] c = "TimeDuration" -> <<"TimeDuration", "Duration", "TimeRep">>
    [] c = "WeeksDuration" -> <<"WeeksDuration", "Duration", "TimeRep">>
    [] c = "Duration" -> <<"Duration", "TimeRep">>
    [] OTHER -> <<c>>

\* a.merge(b) is looked up in the class of a, and super(c, self).merge in
\* the classes that follow c in the MRO of the class of self.
RECURSIVE merge(_, _)
RECURSIVE mro_merge(_, _, _, _)

\* super(c, self).merge(other).
super_merge(c, self, other) ==
  LET after(mro) == mro_merge(mro, 1 + CHOOSE i \in 1..Len(mro) : mro[i] = c,
                              self, other)
  IN after(Mro(self.cls))

\* A fill that leaves the absent slot absent.
ZeroFillKeep(elt) == Ok(elt)

\* type(elt)(0), the zero that fills an absent slot before the merged one.
ZeroFill(elt) ==
  IF elt.kind = "int" THEN Ok(PyInt(0)) ELSE NewUnit(elt.kind, PyInt(0))

\* The else branch of TimeRep.merge: the loop over the slots from i, on the
\* copy merged.  When no slot matches the method returns None; the outcome
\* then also carries, as written, the copy the loop has assigned to.
RECURSIVE MergeUnit(_, _, _)
MergeUnit(merged, other, i) ==
  IF i > Len(merged.elements)
  THEN [status |-> "ok", val |-> None, written |-> merged]
  ELSE IF IsInstance(other, ClassOf(merged.elements[i]))
       THEN Ok([merged EXCEPT !.elements[i] = other])
  ELSE IF ~Truthy(merged.elements[i])
       THEN Then(ZeroFill(merged.elements[i]),
                 LAMBDA z : MergeUnit([merged EXCEPT !.elements[i] = z],
                                      other, i + 1))
  ELSE MergeUnit(merged, other, i + 1)

\* The first branch of TimeRep.merge: each absent slot is taken from other;
\* other.elements[i] raises IndexError when other is shorter.
MergeSame(merged, other) ==
  IF \E i \in 1..Len(merged.elements) :
       ~Truthy(merged.elements[i]) /\ i > Len(other.elements)
  THEN Err("IndexError")
  ELSE Ok([merged EXCEPT !.elements =
             [i \in 1..Len(merged.elements) |->
                IF Truthy(merged.elements[i]) THEN merged.elements[i]
                ELSE other.elements[i]]])

\* A copy that is the object itself.
TimeRepCopyAlias(self) == self

\* TimeRep.copy: a new representation object with a new list of the same
\* element objects.
TimeRep_copy(self) == MkRep(self.cls, self.elements)

TimeRep_merge(self, other) ==
  LET body(merged) ==
        IF IsInstance(other, self.cls) THEN MergeSame(merged, other)
        ELSE MergeUnit(merged, other, 1)
  IN body(TimeRep_copy(self))

\* The attribute of a representation that has it.
Attr(rep, name) == GetAttr(rep, name).val

Time_merge(self, other) ==
  IF IsInstance(other, "UTCOffset") \/ (IsInstance(other, "Hour") /\ other.signed)
  THEN Then(IF IsInstance(other, "UTCOffset") THEN Ok(other)
            ELSE UTCOffset(<<other>>),
            LAMBDA o : Time([k \in 1..4 |->
                               IF k = 4 THEN o
                               ELSE Attr(self, <<"Hour", "Minute", "Second">>[k])]))
  ELSE super_merge("Time", self, other)

\* Date.merge; super(Date, self).merge is Time.merge for a DateTime and
\* TimeRep.merge for a plain date.
Date_merge(self, other) ==
  IF IsInstance(other, "Time") THEN DateTime(self, other)
  ELSE super_merge("Date", self, other)

DateTime_merge(self, other) ==
  IF \E c \in {"Hour", "Minute", "Second", "UTCOffset"} : IsInstance(other, c)
  THEN Then(merge(Attr(self, "Time"), other),
            LAMBDA t : DateTime(Attr(self, "Date"), t))
  ELSE IF IsInstance(other, "DateTime") \/ IsInstance(other, "Duration")
       THEN TimeInterval(<<self, other>>)
  ELSE super_merge("DateTime", self, other)

Duration_merge(self, other) ==
  IF IsInstance(other, "Weeks") THEN WeeksDuration(<<other>>)
  ELSE IF IsInstance(other, "DateTime") THEN TimeInterval(<<self, other>>)
  ELSE super_merge("Duration", self, other)

RecurringTimeInterval_merge(self, other) ==
  IF IsInstance(other, "DateTime") \/ IsInstance(other, "Duration")
  THEN RecurringTimeInterval(self.elements \o <<other>>)
  ELSE super_merge("RecurringTimeInterval", self, other)

\* TimeUnit.merge: self or other.
TimeUnit_merge(self, other) == IF Truthy(self) THEN Ok(self) ELSE Ok(other)

Year_merge(self, other) ==
  IF IsInstance(other, "Month") THEN CalendarDate(<<self, other>>)
  ELSE IF IsInstance(other, "Week") THEN WeekDate(<<self, other>>)
  ELSE IF IsInstance(other, "Day") THEN OrdinalDate(<<self, other>>)
  ELSE Ok(None)

Hour_merge(self, other) ==
  IF IsInstance(other, "Minute")
  THEN IF self.signed THEN UTCOffset(<<self, other>>)
       ELSE Time(<<self, other>>)
  ELSE IF IsInstance(other, "UTCOffset")
       THEN Time(<<self, None, None, other>>)
  ELSE Ok(None)

\* TimeRep.__or__, x | y for a Duration x: x.merge(y) or NotImplemented,
\* and Python raises TypeError when the operator is not implemented.
Duration_or(self, other) ==
  Then(merge(self, other),
       LAMBDA m : IF ~Truthy(m) THEN Err("TypeError") ELSE Ok(m))

\* Cardinal.merge: Duration() | self | other.
Cardinal_merge(self, other) ==
  Then(Duration(<<>>),
       LAMBDA d0 : Then(Duration_or(d0, self),
                        LAMBDA d1 : Duration_or(d1, other)))

\* TimeUnit.__or__, x | y for a unit x: x.merge(y) or NotImplemented.
TimeUnit___or__(self, other) ==
  Then(merge(self, other),
       LAMBDA m : IF ~Truthy(m) THEN Err("TypeError") ELSE Ok(m))

\* The method merge found from position i of the MRO mro of type(self).
mro_merge(mro, i, self, other) ==
  CASE mro[i] = "RecurringTimeInterval" ->
         RecurringTimeInterval_merge(self, other)
    [] mro[i] = "DateTime" -> DateTime_merge(self, other)
    [] mro[i] = "Date" -> Date_merge(self, other)
    [] mro[i] = "Time" -> Time_merge(self, other)
    [] mro[i] = "Duration" -> Duration_merge(self, other)
    [] mro[i] = "TimeRep" -> TimeRep_merge(self, other)
    [] OTHER -> mro_merge(mro, i + 1, self, other)

\* a.merge(b), by the class of a.
merge(a, b) ==
  CASE IsRep(a) -> mro_merge(Mro(a.cls), 1, a, b)
    [] IsInstance(a, "Weeks") -> Ok(None)
    [] IsInstance(a, "Recurrences") -> RecurringTimeInterval(<<a, b>>)
    [] IsInstance(a, "Cardinal") /\ ~IsInstance(a, "Weeks")
       /\ ~IsInstance(a, "Recurrences") -> Cardinal_merge(a, b)
    [] ~IsInstance(a, "Cardinal") /\ IsInstance(a, "Year") -> Year_merge(a, b)
    [] ~IsInstance(a, "Cardinal") /\ IsInstance(a, "Hour") -> Hour_merge(a, b)
    [] OTHER -> TimeUnit_merge(a, b)

(***************************************************************************)
(* Arithmetic on calendar dates.                                           *)
(***************************************************************************)
ApplyOp(op, a, b) == IF op = "add" THEN a + b ELSE a - b

\* The loop without the asymmetry: the month is decremented after its
\* length has been added.
RECURSIVE NormaliseDaySymmetric(_, _, _)
NormaliseDaySymmetric(year, month, day) ==
  IF day > dim(year, month) \/ day < 1
  THEN IF day < 1
       THEN LET c == divmod_1(month - 1, 12)
            IN NormaliseDaySymmetric(year + c.q, c.r, day + dim(year, month))
       ELSE LET c == divmod_1(month + 1, 12)
            IN NormaliseDaySymmetric(year + c.q, c.r, day - dim(year, month))
  ELSE [year |-> year, month |-> month, day |-> day]

\* The while loop of CalendarDate.add_sub on (year, month, day).
RECURSIVE NormaliseDay(_, _, _)
NormaliseDay(year, month, day) ==
  IF day > dim(year, month) \/ day < 1
  THEN IF day < 1
       THEN LET c == divmod_1(month - 1, 12)
            IN NormaliseDay(year + c.q, c.r, day + dim(year, c.r))
       ELSE LET c == divmod_1(month + 1, 12)
            IN NormaliseDay(year + c.q, c.r, day - dim(year, month))
  ELSE [year |-> year, month |-> month, day |-> day]

\* A round that handles only a day past the end of the month.
NormaliseRoundForward(year, month, day) ==
  IF day < 1 THEN [year |-> year, month |-> month, day |-> day]
  ELSE LET c == divmod_1(month + 1, 12)
       IN [year |-> year + c.q, month |-> c.r, day |-> day - dim(year, month)]

\* One round of the while loop of CalendarDate.add_sub.
NormaliseRound(year, month, day) ==
  IF day < 1
  THEN LET c == divmod_1(month - 1, 12)
       IN [year |-> year + c.q, month |-> c.r, day |-> day + dim(year, c.r)]
  ELSE LET c == divmod_1(month + 1, 12)
       IN [year |-> year + c.q, month |-> c.r, day |-> day - dim(year, month)]

ClipDayNone(day, year, month) == day

\* The clipping step of CalendarDate.add_sub.
ClipDay(day, year, month) == Min(day, dim(year, month))

\* CalendarDate.add_sub(self, other, op).
CalendarDate_add_sub(self, other, op) ==
  IF ~IsInstance(other, "Duration") THEN Err("TypeError")
  ELSE
  LET days(year, month, sd, od) ==
        LET date(n) == Ok(<<PyInt(n.year), PyInt(n.month), PyInt(n.day)>>)
        IN date(NormaliseDay(year, month,
                             ApplyOp(op, ClipDay(IntOf(sd), year, month),
                                     IntOf(od))))
      months(year0, c) ==
        Then(GetAttr(self, "Day"),
             LAMBDA sd :
               IF ~Truthy(sd) THEN Ok(<<PyInt(year0 + c.q), PyInt(c.r)>>)
               ELSE Then(GetAttr(other, "Days"),
                         LAMBDA od : days(year0 + c.q, c.r, sd, od)))
      years(year0) ==
        Then(GetAttr(self, "Month"),
             LAMBDA sm :
               IF ~Truthy(sm) THEN Ok(<<PyInt(year0)>>)
               ELSE Then(GetAttr(other, "Months"),
                         LAMBDA om :
                           months(year0,
                                  divmod_1(ApplyOp(op, IntOf(sm), IntOf(om)),
                                           12))))
  IN Then(Then(GetAttr(self, "Year"),
               LAMBDA sy :
                 Then(GetAttr(other, "Years"),
                      LAMBDA oy : years(ApplyOp(op, IntOf(sy), IntOf(oy))))),
          LAMBDA elements : CalendarDate(elements))

\* The outcome of raise TimeUnitOverflow(value, carry).
Overflow(value, carry) ==
  [status |-> "TimeUnitOverflow", val |-> value, carry |-> carry]

\* A round that drops the carry of the round before it.
TimeStepNoCarry(x, y, m, carry, op) ==
  LET round(total) == [carry |-> total \div m, z |-> PyInt(total % m)]
  IN IF Truthy(x) THEN round(ApplyOp(op, IntOf(x), IntOf(y)))
     ELSE [carry |-> 0, z |-> None]

\* One round of the loop of Time.add_sub: the element z and the carry out.
TimeStep(x, y, m, carry, op) ==
  LET round(total) == [carry |-> total \div m, z |-> PyInt(total % m)]
  IN IF Truthy(x) THEN round(ApplyOp(op, IntOf(x), IntOf(y)) + carry)
     ELSE [carry |-> 0, z |-> None]

\* Time.add_sub(self, other, op).
Time_add_sub(self, other, op) ==
  IF ~IsInstance(other, "Duration") THEN Err("TypeError")
  ELSE
  LET hours(s, m, h) ==
        Then(Time(<<h.z, m.z, s.z, Attr(self, "UTCOffset")>>),
             LAMBDA sum : IF h.carry # 0 THEN Overflow(sum, h.carry)
                          ELSE Ok(sum))
      minutes(s, m, yh) ==
        hours(s, m, TimeStep(Attr(self, "Hour"), yh, 24, m.carry, op))
      seconds(s, ym, yh) ==
        minutes(s, TimeStep(Attr(self, "Minute"), ym, 60, s.carry, op), yh)
  IN Then(GetAttr(other, "Seconds"),
          LAMBDA ys :
            Then(GetAttr(other, "Minutes"),
                 LAMBDA ym :
                   Then(GetAttr(other, "Hours"),
                        LAMBDA yh :
                          seconds(TimeStep(Attr(self, "Second"), ys, 60, 0,
                                           op),
                                  ym, yh))))

\* An addition that returns its left operand.
CardinalKeepSelf(self, other) == Ok(self)

\* Cardinal.__add__ for two units of one class, as WeeksDuration.__add__
\* calls it.
Cardinal___add__(self, other) ==
  IF ~self.present \/ ~other.present THEN Err("TypeError")
  ELSE NewUnit(self.kind, PyInt(self.value + other.value))

\* A sum that is absent when either side is.
ElementSumBoth(a, b) ==
  IF Truthy(a) /\ Truthy(b) THEN PyInt(IntOf(a) + IntOf(b)) ELSE None

\* a.decimal() + b.decimal() if a or b else None.
ElementSum(a, b) ==
  IF Truthy(a) \/ Truthy(b) THEN PyInt(IntOf(a) + IntOf(b)) ELSE None

\* Duration.__add__(self, other), with the override of WeeksDuration.
Duration___add__(self, other) ==
  LET zipped == Min(Len(self.elements),
                    IF IsRep(other) THEN Len(other.elements) ELSE 0)
      sums == [i \in 1..zipped |->
                 ElementSum(self.elements[i], other.elements[i])]
      each == [i \in 1..Len(self.elements) |->
                 IF self.elements[i].kind = other.kind
                 THEN PyInt(IntOf(self.elements[i]) + IntOf(other))
                 ELSE self.elements[i]]
      new(c, args) == UnitsInit(c, args, IF c = "WeeksDuration" THEN <<"Weeks">>
                                         ELSE DurationUnits)
      weeks == self.cls = "WeeksDuration" /\ IsInstance(other, "Weeks")
      same == IsInstance(other, self.cls)
      cardinal == ~IsRep(other)
                  /\ other.kind \in {"Years", "Months", "Days", "Hours",
                                     "Minutes", "Seconds"}
  IN IF self.cls = "WeeksDuration" /\ ~weeks /\ IsInstance(other, "Cardinal")
     THEN Err("TypeError")
     ELSE IF ~(weeks \/ same \/ cardinal) THEN Err("TypeError")
     ELSE Then(IF weeks
               THEN Then(Cardinal___add__(self.elements[1], other),
                         LAMBDA w : Ok([c |-> "WeeksDuration", a |-> <<w>>]))
               ELSE IF same THEN Ok([c |-> self.cls, a |-> sums])
               ELSE Ok([c |-> "Duration", a |-> each]),
               LAMBDA ctor : new(ctor.c, ctor.a))

\* DateTime.add_sub(self, other, op).  other += Days(n) binds the name to
\* the new Duration that Duration.__add__ returns.
DateTime_add_sub(self, other, op) ==
  IF ~IsInstance(other, "Duration") THEN Err("TypeError")
  ELSE
  LET dates(t, date) ==
        Then(IF t.status = "TimeUnitOverflow"
             THEN Duration___add__(
                    other, NewUnit("Days", PyInt(Abs(t.carry))).val)
             ELSE Ok(other),
             LAMBDA other2 :
               IF date.cls # "CalendarDate" THEN Err("TypeError")
               ELSE Then(CalendarDate_add_sub(date, other2, op),
                         LAMBDA d : DateTime(d, t.val)))
      times(t) == IF t.status \notin {"ok", "TimeUnitOverflow"} THEN t
                  ELSE dates(t, Attr(self, "Date"))
  IN times(Time_add_sub(Attr(self, "Time"), other, op))

\* a + b and a - b for a representation a.
Arith(a, b, op) ==
  CASE IsInstance(a, "DateTime") -> DateTime_add_sub(a, b, op)
    [] a.cls = "CalendarDate" -> CalendarDate_add_sub(a, b, op)
    [] a.cls = "Time" -> Time_add_sub(a, b, op)
    [] IsInstance(a, "Duration") /\ op = "add" -> Duration___add__(a, b)
    [] OTHER -> Err("TypeError")

(***************************************************************************)
(* The format machine.  A string is a sequence of characters; a character  *)
(* outside ASCII is written by its name.                                   *)
(***************************************************************************)
PlusMinus == "PLUS-MINUS SIGN"

LowLine == "COMBINING LOW LINE"

Hyphen == "HYPHEN"

\* The identity unit, TimeUnit(None).
unit == MkUnit("TimeUnit", FALSE, 0, FALSE)

\* The class attribute digits as each class body writes it.
digits(c) ==
  CASE c = "Date" ->
         [Y |-> "Year", M |-> "Month", D |-> "Day", w |-> "Week"]
    [] c = "CalendarDate" ->
         [Y |-> "Year", M |-> "Month", D |-> "DayOfMonth"]
    [] c = "OrdinalDate" -> [Y |-> "Year", D |-> "DayOfYear"]
    [] c = "WeekDate" -> [Y |-> "Year", w |-> "Week", D |-> "DayOfWeek"]
    [] c = "UTCOffset" -> [h |-> "Hour", m |-> "Minute"]
    [] c = "Time" -> [h |-> "Hour", m |-> "Minute", s |-> "Second"]
    [] c = "Duration" -> [n |-> "TimeUnit"]
    [] c = "RecurringTimeInterval" -> [n |-> "Recurrences"]
    [] OTHER -> <<>>

\* The class attribute designators after the module is loaded; "None" is
\* a designator that changes nothing, "utc" the UTC object.
designators(c) ==
  CASE c = "Date" -> [W |-> "None"]
    [] c = "Time" -> [T |-> "None", Z |-> "utc"]
    [] c = "DateTime" -> [T |-> "Time"]
    [] c = "Duration" ->
         [W |-> "Weeks", Y |-> "Years", M |-> "Months", D |-> "Days",
          T |-> "TimeDuration"]
    [] c = "TimeDuration" ->
         [H |-> "Hours", M |-> "Minutes", S |-> "Seconds"]
    [] c = "TimeInterval" -> [P |-> "Duration"]
    [] c = "RecurringTimeInterval" -> [R |-> "RecurringTimeInterval"]
    [] OTHER -> <<>>

\* The class attribute separators: TRUE marks a hard separator.
separators(c) ==
  CASE c = "Date" -> ("-" :> FALSE) @@ (Hyphen :> FALSE)
    [] c = "Time" -> (":" :> FALSE)
    [] c = "TimeInterval" -> ("/" :> TRUE)
    [] OTHER -> <<>>

\* A slot that SlotMerger merges along the MRO: the entry of the most
\* derived class that has the key.
SlotHas(slot(_), c, key) ==
  \E i \in 1..Len(Mro(c)) : key \in DOMAIN slot(Mro(c)[i])

SlotGet(slot(_), c, key) ==
  LET hits == {i \in 1..Len(Mro(c)) : key \in DOMAIN slot(Mro(c)[i])}
      first == CHOOSE i \in hits : \A j \in hits : i <= j
  IN slot(Mro(c)[first])[key]

\* unicode.upper() on the characters the representations use.
Upper(ch) ==
  LET lower == <<"d", "h", "m", "n", "p", "r", "s", "t", "w", "y", "z">>
      upper == <<"D", "H", "M", "N", "P", "R", "S", "T", "W", "Y", "Z">>
  IN IF \E i \in 1..Len(lower) : lower[i] = ch
     THEN upper[CHOOSE i \in 1..Len(lower) : lower[i] = ch]
     ELSE ch

DigitChars == <<"0", "1", "2", "3", "4", "5", "6", "7", "8", "9">>

IsDigit(ch) == \E i \in 1..Len(DigitChars) : DigitChars[i] = ch

DigitValue(ch) == (CHOOSE i \in 1..Len(DigitChars) : DigitChars[i] = ch) - 1

\* "%d" % n for n >= 0.
RECURSIVE DecimalDigits(_)
DecimalDigits(n) ==
  IF n < 10 THEN <<DigitChars[n + 1]>>
  ELSE Append(DecimalDigits(n \div 10), DigitChars[(n % 10) + 1])

\* int(s) for a string of decimal digits.
RECURSIVE ParseInt(_)
ParseInt(s) ==
  IF Len(s) = 0 THEN 0
  ELSE 10 * ParseInt(SubSeq(s, 1, Len(s) - 1)) + DigitValue(s[Len(s)])

\* The format ops.  Literal(lit) upper-cases its literal.
Literal(op, lit, c) ==
  [op |-> op, lit |-> Upper(lit), cls |-> c, min |-> 0, max |-> 0,
   signed |-> FALSE]

Separator(lit) == Literal("Separator", lit, "None")

HardSeparator(lit) == Literal("HardSeparator", lit, "None")

PrefixDesignator(lit, c) == Literal("PrefixDesignator", lit, c)

Coerce(lit, c) == Literal("Coerce", lit, c)

Z == Literal("UTCDesignator", "Z", "UTCOffset")

\* Element(cls, (min, max), (frac_min, frac_max), separator, signed); NoMax
\* is None.
ElementFrac(c, min, max, frac_min, frac_max, separator, signed) ==
  [op |-> "Element", lit |-> "", cls |-> c, min |-> min, max |-> max,
   signed |-> signed, frac_min |-> frac_min, frac_max |-> frac_max,
   separator |-> separator]

\* Element(cls, (min, max), signed=signed), with the defaults of frac and
\* separator.
Element(c, min, max, signed) ==
  ElementFrac(c, min, max, NoMax, NoMax, ",", signed)

\* FormatReprParser.__init__: re.sub(r"_(.)", "\1" + low line, repr).
RECURSIVE Underline(_)
Underline(repr) ==
  IF Len(repr) = 0 THEN <<>>
  ELSE IF repr[1] = "_" /\ Len(repr) >= 2
       THEN <<repr[2], LowLine>> \o Underline(SubSeq(repr, 3, Len(repr)))
  ELSE <<repr[1]>> \o Underline(SubSeq(repr, 2, Len(repr)))

\* The number of characters equal to char from position i on.
RECURSIVE Run(_, _, _)
Run(repr, i, char) ==
  IF i <= Len(repr) /\ repr[i] = char THEN 1 + Run(repr, i + 1, char) ELSE 0

\* A count that includes an underlined character.
snarfAll(run, repeat) == run

\* The count snarf returns for a run of run characters: an underlined last
\* character is not counted.
snarf(run, repeat) == IF repeat THEN run - 1 ELSE run

\* FormatReprParser.separator: the innermost syntax class on the stack that
\* has the separator (0 when none has); the classes above it are popped.
SeparatorLevel(stack, char) ==
  LET has == {k \in 1..Len(stack) : SlotHas(separators, stack[k], char)}
  IN IF has = {} THEN 0 ELSE CHOOSE k \in has : \A j \in has : j <= k

\* FormatReprParser.parse from the character at position i, with the
\* stack of syntax classes and the ops produced so far.  Each step is
\* designator(char) or separator(char) or element(char).
RECURSIVE ParseFrom(_, _, _, _)
ParseFrom(repr, i, stack, ops) ==
  IF i > Len(repr) THEN Ok(ops)
  ELSE
  LET char == repr[i]
      syntax == stack[Len(stack)]
      level == SeparatorLevel(stack, char)
  IN IF SlotHas(designators, syntax, char)
     THEN LET designate == SlotGet(designators, syntax, char)
          IN IF designate = "utc"
             THEN ParseFrom(repr, i + 1, stack, Append(ops, Z))
             ELSE IF designate # "None" /\ "TimeUnit" \in Bases(designate)
                  THEN ParseFrom(repr, i + 1, stack,
                                 Append(ops, Coerce(char, designate)))
             ELSE ParseFrom(repr, i + 1,
                            IF designate # "None"
                            THEN Append(stack, designate) ELSE stack,
                            Append(ops, PrefixDesignator(char, designate)))
     ELSE IF level # 0
     THEN ParseFrom(repr, i + 1, SubSeq(stack, 1, level),
                    Append(ops,
                           IF SlotGet(separators, stack[level], char)
                           THEN HardSeparator(char) ELSE Separator(char)))
     ELSE \* element(char)
       LET signed == (char = PlusMinus)
           at == IF signed THEN i + 1 ELSE i
       IN IF at > Len(repr) THEN Ok(ops)  \* next() ends the generator
          ELSE
          LET c == repr[at]
              n == Run(repr, at + 1, c)
              repeat == at + n + 1 <= Len(repr) /\ repr[at + n + 1] = LowLine
              count == snarf(n, repeat) + 1
              after == at + n + 1 + (IF repeat THEN 1 ELSE 0)
              point == after <= Len(repr) /\ repr[after] \in {",", "."}
              fn == Run(repr, after + 1, c)
              frepeat == after + fn + 1 <= Len(repr)
                           /\ repr[after + fn + 1] = LowLine
              frac == snarf(fn, frepeat)
              fafter == after + fn + 1 + (IF frepeat THEN 1 ELSE 0)
          IN IF ~SlotHas(digits, syntax, c) THEN Err("KeyError")
             ELSE IF point
             THEN ParseFrom(repr, fafter, stack,
                            Append(ops,
                                   ElementFrac(SlotGet(digits, syntax, c),
                                               count,
                                               IF repeat THEN NoMax ELSE count,
                                               frac,
                                               IF frepeat THEN NoMax ELSE frac,
                                               repr[after], signed)))
             ELSE ParseFrom(repr, after, stack,
                            Append(ops,
                                   Element(SlotGet(digits, syntax, c), count,
                                           IF repeat THEN NoMax ELSE count,
                                           signed)))

\* Format(format_repr, syntax).ops.
Format(format_repr, syntax) ==
  ParseFrom(Underline(format_repr), 1, <<syntax>>, <<>>)

\* ("%0*d" % (min, whole))[0:max].
PadAndCut(min, max, whole) ==
  LET d == DecimalDigits(whole)
      padded == IF Len(d) >= min THEN d
                ELSE [i \in 1..(min - Len(d)) |-> "0"] \o d
  IN IF max = NoMax THEN padded ELSE SubSeq(padded, 1, Min(Len(padded), max))

\* The outcome of fop.format(m, elt): result is "True", "False" or "None";
\* m is the machine, with its stack of pending separators and its output.
Formatted(result, m) == [result |-> result, m |-> m]

\* Literal.format.
Literal_format(fop, m) ==
  LET n == Len(m.separators)
  IN Formatted("False",
       IF n > 0
       THEN [separators |-> SubSeq(m.separators, 1, n - 1),
             out |-> m.out \o <<m.separators[n]>> \o <<fop.lit>>]
       ELSE [m EXCEPT !.out = m.out \o <<fop.lit>>])

\* A separator that is written as soon as its fop runs.
Separator_formatEager(fop, m) ==
  Formatted("False", [m EXCEPT !.out = m.out \o <<fop.lit>>])

\* Separator.format.
Separator_format(fop, m) ==
  Formatted("False", [m EXCEPT !.separators = Append(m.separators, fop.lit)])

\* PrefixDesignator.format.
PrefixDesignator_format(fop, m, elt) ==
  IF Truthy(elt) THEN Literal_format(fop, m) ELSE Formatted("None", m)

\* Decimal(10) ** n.
RECURSIVE Pow10(_)
Pow10(n) == IF n <= 0 THEN 1 ELSE 10 * Pow10(n - 1)

\* What Element.format appends when frac_min is not None: the separator,
\* and then str(int(frac)) for frac scaled by the power of ten that the
\* exponent of the quantized frac and frac_min give, or frac_min zeros when
\* frac is zero or not a Decimal.
Fraction(fop, elt) ==
  LET f == IF IsDecimal(elt) THEN elt.frac ELSE <<>>
      exp == 0 - (IF fop.frac_max \in {NoMax, 0} THEN Len(f)
                  ELSE fop.frac_max)
      scale == IF 0 - exp > fop.frac_min THEN 0 - exp ELSE fop.frac_min
  IN IF fop.frac_min = NoMax THEN <<>>
     ELSE IF ParseInt(f) # 0
          THEN <<fop.separator>>
                 \o DecimalDigits((ParseInt(f) * Pow10(scale))
                                    \div Pow10(Len(f)))
     ELSE <<fop.separator>> \o [j \in 1..fop.frac_min |-> "0"]

\* Element.format.
Element_format(fop, m, elt) ==
  IF Truthy(elt) /\ IsInstance(elt, fop.cls)
  THEN LET n == Len(m.separators)
           sep == IF n > 0 THEN <<m.separators[n]>> ELSE <<>>
           sign == IF fop.signed
                   THEN (IF elt.value < 0 THEN <<"-">> ELSE <<"+">>)
                   ELSE <<>>
       IN Formatted("True",
            [separators |-> IF n > 0 THEN SubSeq(m.separators, 1, n - 1)
                            ELSE m.separators,
             out |-> m.out \o sep \o sign
                       \o PadAndCut(fop.min, fop.max, Abs(elt.value))
                       \o Fraction(fop, elt)])
  ELSE Formatted("None", m)

\* fop.format(m, elt) by the class of the fop.
FopFormat(fop, m, elt) ==
  CASE fop.op = "Element" -> Element_format(fop, m, elt)
    [] fop.op \in {"Separator", "HardSeparator"} -> Separator_format(fop, m)
    [] fop.op = "PrefixDesignator" -> PrefixDesignator_format(fop, m, elt)
    [] OTHER -> Literal_format(fop, m)

\* A loop that goes on when the elements have run out.
BreaksNever(result, live) == FALSE

\* The break of the loop of Format.format when the fop did not return
\* False and there are no elements left (elts is None).
Breaks(result, live) == result # "False" /\ ~live

\* The loop of Format.format: oi is the current fop, ei the current
\* element, live is FALSE once the elements have run out (elt = elts = None).
RECURSIVE FormatLoop(_, _, _, _, _, _)
FormatLoop(ops, elts, oi, ei, live, m) ==
  LET r == FopFormat(ops[oi], m, IF live THEN elts[ei] ELSE None)
      advance == r.result # "None"
      fetch == r.result # "False"
  IN IF advance /\ oi = Len(ops) THEN Ok(r.m.out)
     ELSE IF fetch /\ ~live THEN Ok(r.m.out)
     ELSE FormatLoop(ops, elts,
                     IF advance THEN oi + 1 ELSE oi,
                     IF fetch /\ ei < Len(elts) THEN ei + 1 ELSE ei,
                     IF fetch THEN ei < Len(elts) ELSE live,
                     r.m)

\* Format.format(timerep) for the fops ops.
Format_format(ops, timerep) ==
  IF ~IsRep(timerep) /\ ~IsUnit(timerep) THEN Err("TypeError")
  ELSE LET elts == IF IsRep(timerep) THEN Flatten(timerep) ELSE <<timerep>>
       IN IF Len(elts) = 0 \/ Len(ops) = 0 THEN Err("StopIteration")
          ELSE FormatLoop(ops, elts, 1, 1, TRUE,
                          [separators |-> <<>>, out |-> <<>>])

\* cls() for the class of a prefix designator.  TimeDuration() is the
\* Duration that TimeDuration.__new__ builds.
Instantiate(c) ==
  CASE c = "Time" -> Time(<<>>)
    [] c = "Duration" -> Duration(<<>>)
    [] c = "TimeDuration" ->
         Duration(<<NewUnit("Years", PyInt(0)).val,
                    NewUnit("Months", PyInt(0)).val,
                    NewUnit("Days", PyInt(0)).val,
                    NewUnit("Hours", None).val,
                    NewUnit("Minutes", None).val,
                    NewUnit("Seconds", None).val>>)
    [] c = "RecurringTimeInterval" -> RecurringTimeInterval(<<>>)
    [] OTHER -> Err("TypeError")

\* The outcome of fop.read(m): the value returned (merge) and the machine
\* after it, or the exception raised.
Read(merged, i, stack) ==
  [status |-> "ok", merge |-> merged, i |-> i, stack |-> stack]

ReadErr(e) == [status |-> e, merge |-> FALSE, i |-> 0, stack |-> <<>>]

\* Literal.read: TRUE when the literal is at position i of the input.
Literal_read(fop, input, i) == i <= Len(input) /\ input[i] = fop.lit

\* A signed element that is merged as it is read.
MergesAlways(fop) == TRUE

\* What Element.read returns: not self.signed.
Merges(fop) == ~fop.signed

\* Element.read: the pattern is an optional-by-construction sign followed
\* by min to max digits and, when frac_min is neither None nor 0, by a
\* decimal sign and frac_min to frac_max digits, matched greedily at
\* position i.
Element_read(fop, input, i, stack) ==
  LET hasSign == i <= Len(input) /\ input[i] \in {"+", "-"}
      from == IF fop.signed THEN i + 1 ELSE i
      fractional == fop.frac_min \notin {NoMax, 0}
      RECURSIVE Count(_, _, _)
      Count(j, start, max) ==
        IF j <= Len(input) /\ IsDigit(input[j])
             /\ (max \in {NoMax, 0} \/ j - start < max)
        THEN 1 + Count(j + 1, start, max) ELSE 0
      push(n, u) == IF u.status # "ok" THEN ReadErr(u.status)
                    ELSE Read(Merges(fop), from + n, Append(stack, u.val))
      signed(value) == IF fop.signed /\ input[i] = "-"
                       THEN 0 - value ELSE value
      new(n, k, value) ==
        IF ~fractional
        THEN push(n, UnitInit(fop.cls, PyInt(signed(value)), fop.signed))
        ELSE push(n + 1 + k,
                  DecimalInit(fop.cls,
                              PyDecimal(signed(value),
                                        SubSeq(input, from + n + 1,
                                               from + n + k)),
                              fop.signed))
      point(n) == from + n <= Len(input) /\ input[from + n] \in {".", ","}
      match(n, k) ==
        IF ~(/\ fop.signed => hasSign
             /\ n >= fop.min
             /\ fractional => (point(n) /\ k >= fop.frac_min))
        THEN ReadErr(IF i > Len(input) THEN "IndexError" ELSE "StopFormat")
        ELSE IF n = 0 THEN ReadErr("ValueError")  \* int() of no digits
        ELSE new(n, k, ParseInt(SubSeq(input, from, from + n - 1)))
      whole(n) ==
        match(n, IF fractional /\ point(n)
                 THEN Count(from + n + 1, from + n + 1, fop.frac_max)
                 ELSE 0)
  IN whole(Count(from, from, fop.max))

\* fop.read(m) by the class of the fop.
FopRead(fop, input, i, stack) ==
  LET push(merged, obj) ==
        IF obj.status # "ok" THEN ReadErr(obj.status)
        ELSE Read(merged, i + 1, obj.val)
  IN IF fop.op = "Element" THEN Element_read(fop, input, i, stack)
     ELSE IF ~Literal_read(fop, input, i) THEN ReadErr("StopFormat")
     ELSE CASE fop.op = "Separator" -> push(FALSE, Ok(stack))
            [] fop.op = "HardSeparator" -> push(FALSE, Ok(Append(stack, unit)))
            [] fop.op = "PrefixDesignator" ->
                 IF fop.cls = "None" THEN push(TRUE, Ok(stack))
                 ELSE push(TRUE, Then(Instantiate(fop.cls),
                                      LAMBDA obj : Ok(Append(stack, obj))))
            [] fop.op = "Coerce" ->
                 IF Len(stack) = 0 THEN ReadErr("IndexError")
                 ELSE push(TRUE,
                           Then(NewUnit(fop.cls, stack[Len(stack)]),
                                LAMBDA u :
                                  Ok([stack EXCEPT ![Len(stack)] = u])))
            [] OTHER -> push(TRUE, Ok(Append(stack, utc)))

\* A round that keeps what is merged so far when a merge fails.
FoldPartial(obj, other) ==
  Then(merge(obj, other),
       LAMBDA merged : IF ~Truthy(merged) THEN Ok(obj) ELSE Ok(merged))

\* One round of the bottom-up merges that end Format.read.
Fold(obj, other) ==
  Then(merge(obj, other),
       LAMBDA merged : IF ~Truthy(merged) THEN Err("StopFormat")
                       ELSE Ok(merged))

\* The bottom-up merges that end Format.read.
RECURSIVE ReadFold(_, _, _)
ReadFold(obj, stack, k) ==
  IF k > Len(stack) THEN Ok(obj)
  ELSE Then(merge(obj, stack[k]),
            LAMBDA merged : IF ~Truthy(merged) THEN Err("StopFormat")
                            ELSE ReadFold(merged, stack, k + 1))

\* The loop of Format.read over the fops from oi.
RECURSIVE ReadLoop(_, _, _, _, _)
ReadLoop(ops, input, oi, i, stack) ==
  LET next(r, s) == ReadLoop(ops, input, oi + 1, r.i, s)
      reduce(r, n, merged) ==
        IF merged.status = "IndexError" THEN next(r, r.stack)
        ELSE IF merged.status # "ok" THEN merged
        ELSE IF Truthy(merged.val)
             THEN next(r, Append(SubSeq(r.stack, 1, n - 2), merged.val))
        ELSE next(r, r.stack)
      step(r, n) ==
        IF r.status # "ok" THEN Err(r.status)
        ELSE IF ~r.merge \/ n < 2 THEN next(r, r.stack)
        ELSE reduce(r, n, merge(r.stack[n - 1], r.stack[n]))
      read(r) == step(r, Len(r.stack))
  IN IF oi > Len(ops)
     THEN (IF Len(stack) = 0 THEN Err("IndexError")
           ELSE ReadFold(stack[1], stack, 2))
     ELSE read(FopRead(ops[oi], input, i, stack))

\* Format.read(string) for the fops ops.
Format_read(ops, string) ==
  ReadLoop(ops, [k \in 1..Len(string) |-> Upper(string[k])], 1, 1, <<>>)

\* The class attribute stdformat.
stdformat(c) ==
  CASE c = "CalendarDate" ->
         <<"Y", "Y", "Y", "Y", "-", "M", "M", "-", "D", "D">>
    [] c = "OrdinalDate" -> <<"Y", "Y", "Y", "Y", "-", "D", "D", "D">>
    [] c = "WeekDate" -> <<"Y", "Y", "Y", "Y", "-", "W", "w", "w", "-", "D">>
    [] c = "UTCOffset" -> <<PlusMinus, "h", "h", ":", "m", "m">>
    [] c = "UTC" -> <<"Z">>
    [] c = "Time" -> <<"h", "h", ":", "m", "m", ":", "s", "s">>
    [] c = "WeeksDuration" -> <<"P", "n", "n", LowLine, "W">>
    [] OTHER -> <<>>

\* TimeRep.__str__ for a class with a stdformat.
TimeRep___str__(self) ==
  Then(Format(stdformat(self.cls), "RecurringTimeInterval"),
       LAMBDA f : Format_format(f, self))

\* Formatters that all start from the years.
formattersFull ==
  [i \in 1..6 |->
     <<"P", "n", "n", LowLine, "Y", "n", "n", LowLine, "M", "n", "n",
       LowLine, "D", "T", "n", "n", LowLine, "H", "n", "n", LowLine, "M",
       "n", "n", LowLine, "S">>]

\* The representations of Duration.formatters.
formatters ==
  <<<<"P", "n", "n", LowLine, "Y", "n", "n", LowLine, "M", "n", "n",
       LowLine, "D", "T", "n", "n", LowLine, "H", "n", "n", LowLine, "M",
       "n", "n", LowLine, "S">>,
     <<"P", "n", "n", LowLine, "M", "n", "n", LowLine, "D", "T", "n",
       "n", LowLine, "H", "n", "n", LowLine, "M", "n", "n", LowLine,
       "S">>,
     <<"P", "n", "n", LowLine, "D", "T", "n", "n", LowLine, "H", "n",
       "n", LowLine, "M", "n", "n", LowLine, "S">>,
     <<"P", "T", "n", "n", LowLine, "H", "n", "n", LowLine, "M", "n",
       "n", LowLine, "S">>,
     <<"P", "T", "n", "n", LowLine, "M", "n", "n", LowLine, "S">>,
     <<"P", "T", "n", "n", LowLine, "S">>>>

\* The loop of Duration.__str__ on the copy d: d.elements[i].value = None
\* assigns to the unit object, which the copy shares with the original.
\* The outcome carries d as written.
RECURSIVE StrLoop(_, _)
StrLoop(d, i) ==
  IF i > Len(d.elements)
  THEN [status |-> "ok", val |-> <<"P", "T", "0", "S">>, written |-> d]
  ELSE IF ~d.elements[i].present \/ d.elements[i].value = 0
       THEN StrLoop([d EXCEPT !.elements[i].present = FALSE,
                              !.elements[i].value = 0], i + 1)
  ELSE LET return(s) == [status |-> s.status, val |-> s.val, written |-> d]
       IN return(Format_format(
                   Format(formatters[i], "RecurringTimeInterval").val, d))

\* Duration.__str__.
Duration___str__(self) ==
  IF self.cls # "Duration" THEN TimeRep___str__(self)
  ELSE StrLoop(TimeRep_copy(self), 1)

(***************************************************************************)
(* The library driven by a client: each action is one call, with its       *)
(* arguments in call and its outcome in ret.                               *)
(***************************************************************************)
OrdinalKinds ==
  {"Year", "Month", "Week", "DayOfYear", "DayOfMonth", "DayOfWeek",
   "Hour", "Minute", "Second", "Day"}

ProbeArgs == {None} \cup {PyInt(n) : n \in ProbeSamples}

OptInts(S) == {None} \cup {PyInt(n) : n \in S}

Init ==
  /\ call = [fn |-> "none"]
  /\ ret = Ok(None)
  /\ heap = <<>>
  /\ objs = <<>>

\* cls(value) for an ordinal unit class.
CallNewUnit ==
  /\ call.fn = "none"
  /\ \E k \in OrdinalKinds, v \in ProbeArgs :
    /\ call' = [fn |-> "NewUnit", kind |-> k, arg |-> v]
    /\ ret' = NewUnit(k, v)
    /\ UNCHANGED <<heap, objs>>

\* days_in_month(year, month).
CallDaysInMonth ==
  /\ call.fn = "none"
  /\ \E y \in YearSamples \cup {1900, 2000}, m \in 0..13 :
    /\ call' = [fn |-> "days_in_month", year |-> y, month |-> m]
    /\ ret' = days_in_month(y, m)
    /\ UNCHANGED <<heap, objs>>

DateArgs ==
  {<<y, m, d>> : y \in OptInts(YearSamples), m \in OptInts({1, 2, 12, 13}),
                 d \in OptInts({-32, -1, 0, 1, 31, 32})}

TimeArgs ==
  {<<h, m, s, o>> : h \in OptInts({0, 23, 25}), m \in OptInts({20}),
                    s \in OptInts({50, 61}),
                    o \in {None, utc, UTCOffset(<<PyInt(1), PyInt(0)>>).val,
                           UTCOffset(<<PyInt(-5)>>).val}}

DurationArgs ==
  {<<a, b, c, d>> : a \in OptInts({0, 1}), b \in OptInts({2, -1}),
                    c \in OptInts({0}), d \in OptInts({12})}

\* The constructors of the representations.
Construct(c, args) ==
  CASE c = "CalendarDate" -> CalendarDate(args)
    [] c = "OrdinalDate" -> OrdinalDate(args)
    [] c = "WeekDate" -> WeekDate(args)
    [] c = "UTCOffset" -> UTCOffset(args)
    [] c = "Time" -> Time(args)
    [] c = "Duration" -> Duration(args)
    [] c = "WeeksDuration" -> WeeksDuration(args)

CallConstruct ==
  /\ call.fn = "none"
  /\ \E c \in {"CalendarDate", "WeekDate", "Time", "Duration"} :
    \E args \in (CASE c = "Time" -> TimeArgs
                   [] c = "Duration" -> DurationArgs
                   [] OTHER -> DateArgs) :
      /\ call' = [fn |-> "Construct", cls |-> c, args |-> args]
      /\ ret' = Construct(c, args)
      /\ UNCHANGED <<heap, objs>>

Dates ==
  {CalendarDate(<<PyInt(y), PyInt(m), PyInt(d)>>).val :
     y \in YearSamples, m \in 1..12, d \in DaySamples}
  \cup {CalendarDate(<<PyInt(y), PyInt(m)>>).val :
          y \in YearSamples, m \in {1, 12}}
  \cup {CalendarDate(<<PyInt(y)>>).val : y \in YearSamples}

Durations ==
  {Duration(<<PyInt(y), PyInt(m), PyInt(d)>>).val :
     y \in 0..MaxDurYears, m \in DurMonthSamples, d \in DurDaySamples}
  \cup {Duration(<<PyInt(y), PyInt(m)>>).val :
          y \in 0..MaxDurYears, m \in DurMonthSamples}

\* date + duration and date - duration.
CallDateArith ==
  /\ call.fn = "none"
  /\ \E d \in Dates, dur \in Durations, op \in {"add", "sub"} :
    /\ call' = [fn |-> "date_arith", op |-> op, self |-> d, other |-> dur,
                undo |-> FALSE, orig |-> d]
    /\ ret' = CalendarDate_add_sub(d, dur, op)
    /\ UNCHANGED <<heap, objs>>

\* (date + duration) - duration: the duration just added is subtracted from
\* the sum.
CallDateUndo ==
  /\ call.fn = "date_arith"
  /\ call.op = "add"
  /\ ~call.undo
  /\ ret.status = "ok"
  /\ call' = [fn |-> "date_arith", op |-> "sub", self |-> ret.val,
              other |-> call.other, undo |-> TRUE, orig |-> call.self]
  /\ ret' = CalendarDate_add_sub(ret.val, call.other, "sub")
  /\ UNCHANGED <<heap, objs>>

\* The client takes the outcome and is ready for its next call.
Return ==
  /\ call.fn # "none"
  /\ call' = [fn |-> "none"]
  /\ ret' = Ok(None)
  /\ UNCHANGED <<heap, objs>>

Next ==
  \/ Return
  \/ CallNewUnit
  \/ CallDaysInMonth
  \/ CallConstruct
  \/ CallDateArith
  \/ CallDateUndo

Spec == Init /\ [][Next]_vars

(***************************************************************************)
(* The format machine driven by a client: a value is formatted, the string *)
(* is read back, and the value read is formatted again, all by the same    *)
(* Format object.  The representations are those of the standard's         *)
(* sections 4.1 to 4.5; each is paired with the values that have exactly   *)
(* the components it names, no component negative unless its element is    *)
(* signed, and a single component given as the unit itself.                *)
(***************************************************************************)
ReprsCalendar3 ==
  {<<"Y", "Y", "Y", "Y", "M", "M", "D", "D">>,
   <<"Y", "Y", "Y", "Y", "-", "M", "M", "-", "D", "D">>,
   <<"Y", "Y", "Y", "Y", Hyphen, "M", "M", Hyphen, "D", "D">>}

ReprsCalendar2 ==
  {<<"Y", "Y", "Y", "Y", "-", "M", "M">>,
   <<"Y", "Y", "Y", "Y", Hyphen, "M", "M">>}

ReprsYear ==
  {<<"Y", "Y", "Y", "Y">>}

ReprsExpanded3 ==
  {<<PlusMinus, "Y", "Y", "Y", "Y", "Y", "Y", "M", "M", "D", "D">>,
   <<PlusMinus, "Y", "Y", "Y", "Y", "Y", "Y", Hyphen, "M", "M", Hyphen,
     "D", "D">>}

ReprsExpanded2 ==
  {<<PlusMinus, "Y", "Y", "Y", "Y", "Y", "Y", "M", "M">>,
   <<PlusMinus, "Y", "Y", "Y", "Y", "Y", "Y", Hyphen, "M", "M">>}

ReprsExpandedYear ==
  {<<PlusMinus, "Y", "Y", "Y", "Y", "Y", "Y">>}

ReprsOrdinal ==
  {<<"Y", "Y", "Y", "Y", "D", "D", "D">>,
   <<"Y", "Y", "Y", "Y", Hyphen, "D", "D", "D">>}

ReprsExpandedOrdinal ==
  {<<PlusMinus, "Y", "Y", "Y", "Y", "Y", "Y", "D", "D", "D">>,
   <<PlusMinus, "Y", "Y", "Y", "Y", "Y", "Y", Hyphen, "D", "D", "D">>}

ReprsWeek3 ==
  {<<"Y", "Y", "Y", "Y", "W", "w", "w", "D">>,
   <<"Y", "Y", "Y", "Y", Hyphen, "W", "w", "w", Hyphen, "D">>}

ReprsWeek2 ==
  {<<"Y", "Y", "Y", "Y", "W", "w", "w">>,
   <<"Y", "Y", "Y", "Y", Hyphen, "W", "w", "w">>}

ReprsTime3 ==
  {<<"h", "h", "m", "m", "s", "s">>,
   <<"h", "h", ":", "m", "m", ":", "s", "s">>,
   <<"T", "h", "h", "m", "m", "s", "s">>,
   <<"T", "h", "h", ":", "m", "m", ":", "s", "s">>}

ReprsTime2 ==
  {<<"h", "h", "m", "m">>,
   <<"h", "h", ":", "m", "m">>}

ReprsHour ==
  {<<"h", "h">>}

ReprsTimeZ3 ==
  {<<"h", "h", "m", "m", "s", "s", "Z">>,
   <<"h", "h", ":", "m", "m", ":", "s", "s", "Z">>}

ReprsTimeZ2 ==
  {<<"h", "h", "m", "m", "Z">>,
   <<"h", "h", ":", "m", "m", "Z">>}

ReprsTimeZ1 ==
  {<<"h", "h", "Z">>}

ReprsOffset2 ==
  {<<PlusMinus, "h", "h", "m", "m">>,
   <<PlusMinus, "h", "h", ":", "m", "m">>}

ReprsOffset1 ==
  {<<PlusMinus, "h", "h">>}

ReprsTime3Offset2 ==
  {<<"h", "h", "m", "m", "s", "s", PlusMinus, "h", "h", "m", "m">>,
   <<"h", "h", ":", "m", "m", ":", "s", "s", PlusMinus, "h", "h", ":",
     "m", "m">>}

ReprsTime3Offset1 ==
  {<<"h", "h", "m", "m", "s", "s", PlusMinus, "h", "h">>,
   <<"h", "h", ":", "m", "m", ":", "s", "s", PlusMinus, "h", "h">>}

ReprsTime2Offset2 ==
  {<<"h", "h", "m", "m", PlusMinus, "h", "h", "m", "m">>,
   <<"h", "h", ":", "m", "m", PlusMinus, "h", "h", ":", "m", "m">>}

ReprsTime2Offset1 ==
  {<<"h", "h", "m", "m", PlusMinus, "h", "h">>,
   <<"h", "h", ":", "m", "m", PlusMinus, "h", "h">>}

ReprsTime1Offset2 ==
  {<<"h", "h", PlusMinus, "h", "h", "m", "m">>,
   <<"h", "h", PlusMinus, "h", "h", ":", "m", "m">>}

ReprsTime1Offset1 ==
  {<<"h", "h", PlusMinus, "h", "h">>}

ReprsDateTime ==
  {<<"Y", "Y", "Y", "Y", "M", "M", "D", "D", "T", "h", "h", "m", "m",
     "s", "s">>,
   <<"Y", "Y", "Y", "Y", Hyphen, "M", "M", Hyphen, "D", "D", "T", "h",
     "h", ":", "m", "m", ":", "s", "s">>}

ReprsDateTimeZ ==
  {<<"Y", "Y", "Y", "Y", "M", "M", "D", "D", "T", "h", "h", "m", "m",
     "s", "s", "Z">>,
   <<"Y", "Y", "Y", "Y", Hyphen, "M", "M", Hyphen, "D", "D", "T", "h",
     "h", ":", "m", "m", ":", "s", "s", "Z">>}

ReprsDateTimeOffset2 ==
  {<<"Y", "Y", "Y", "Y", "M", "M", "D", "D", "T", "h", "h", "m", "m",
     "s", "s", PlusMinus, "h", "h", "m", "m">>,
   <<"Y", "Y", "Y", "Y", Hyphen, "M", "M", Hyphen, "D", "D", "T", "h",
     "h", ":", "m", "m", ":", "s", "s", PlusMinus, "h", "h", ":", "m",
     "m">>}

ReprsDateTimeOffset1 ==
  {<<"Y", "Y", "Y", "Y", "M", "M", "D", "D", "T", "h", "h", "m", "m",
     "s", "s", PlusMinus, "h", "h">>,
   <<"Y", "Y", "Y", "Y", Hyphen, "M", "M", Hyphen, "D", "D", "T", "h",
     "h", ":", "m", "m", ":", "s", "s", PlusMinus, "h", "h">>}

ReprsDateTime2 ==
  {<<"Y", "Y", "Y", "Y", "M", "M", "D", "D", "T", "h", "h", "m", "m">>,
   <<"Y", "Y", "Y", "Y", Hyphen, "M", "M", Hyphen, "D", "D", "T", "h",
     "h", ":", "m", "m">>}

ReprsOrdinalTime2Z ==
  {<<"Y", "Y", "Y", "Y", "D", "D", "D", "T", "h", "h", "m", "m", "Z">>,
   <<"Y", "Y", "Y", "Y", Hyphen, "D", "D", "D", "T", "h", "h", ":", "m",
     "m", "Z">>}

ReprsWeekTime2Offset2 ==
  {<<"Y", "Y", "Y", "Y", "W", "w", "w", "D", "T", "h", "h", "m", "m",
     PlusMinus, "h", "h", "m", "m">>}

ReprsWeekTime2Offset1 ==
  {<<"Y", "Y", "Y", "Y", Hyphen, "W", "w", "w", Hyphen, "D", "T", "h",
     "h", ":", "m", "m", PlusMinus, "h", "h">>}

ReprsDuration ==
  {<<"P", "n", "n", LowLine, "Y", "n", "n", LowLine, "M", "n", "n",
     LowLine, "D", "T", "n", "n", LowLine, "H", "n", "n", LowLine, "M",
     "n", "n", LowLine, "S">>,
   <<"P", "n", "_", "n", "Y", "n", "_", "n", "M", "n", "_", "n", "D",
     "T", "n", "_", "n", "H", "n", "_", "n", "M", "n", "_", "n", "S">>}

ReprsWeeksDuration ==
  {<<"P", "n", "n", LowLine, "W">>}

ReprsInterval ==
  {<<"Y", "Y", "Y", "Y", "M", "M", "D", "D", "T", "h", "h", "m", "m",
     "s", "s", "/", "Y", "Y", "Y", "Y", "M", "M", "D", "D", "T", "h", "h",
     "m", "m", "s", "s">>,
   <<"Y", "Y", "Y", "Y", Hyphen, "M", "M", Hyphen, "D", "D", "T", "h",
     "h", ":", "m", "m", ":", "s", "s", "/", "Y", "Y", "Y", "Y", Hyphen,
     "M", "M", Hyphen, "D", "D", "T", "h", "h", ":", "m", "m", ":", "s",
     "s">>}

ReprsStartDuration ==
  {<<"Y", "Y", "Y", "Y", "M", "M", "D", "D", "T", "h", "h", "m", "m",
     "s", "s", "/", "P", "n", "n", LowLine, "Y", "n", "n", LowLine, "M",
     "n", "n", LowLine, "D", "T", "n", "n", LowLine, "H", "n", "n",
     LowLine, "M", "n", "n", LowLine, "S">>}

ReprsDurationEnd ==
  {<<"P", "n", "n", LowLine, "Y", "n", "n", LowLine, "M", "n", "n",
     LowLine, "D", "T", "n", "n", LowLine, "H", "n", "n", LowLine, "M",
     "n", "n", LowLine, "S", "/", "Y", "Y", "Y", "Y", "M", "M", "D", "D",
     "T", "h", "h", "m", "m", "s", "s">>}

ReprsRecurring ==
  {<<"R", "n", LowLine, "/", "Y", "Y", "Y", "Y", "M", "M", "D", "D", "T",
     "h", "h", "m", "m", "s", "s", "/", "Y", "Y", "Y", "Y", "M", "M", "D",
     "D", "T", "h", "h", "m", "m", "s", "s">>}

ReprsRecurringStart ==
  {<<"R", "n", LowLine, "/", "Y", "Y", "Y", "Y", "M", "M", "D", "D", "T",
     "h", "h", "m", "m", "s", "s", "/", "P", "n", "n", LowLine, "Y", "n",
     "n", LowLine, "M", "n", "n", LowLine, "D", "T", "n", "n", LowLine,
     "H", "n", "n", LowLine, "M", "n", "n", LowLine, "S">>}

ReprsRecurringEnd ==
  {<<"R", "n", LowLine, "/", "P", "n", "n", LowLine, "Y", "n", "n",
     LowLine, "M", "n", "n", LowLine, "D", "T", "n", "n", LowLine, "H",
     "n", "n", LowLine, "M", "n", "n", LowLine, "S", "/", "Y", "Y", "Y",
     "Y", "M", "M", "D", "D", "T", "h", "h", "m", "m", "s", "s">>}

FmtYears == {0, 1985}
FmtSignedYears == {-1985, 1985}
FmtMonths == {1, 12}
FmtDays == {1, 31}
FmtOrdinalDays == {1, 366}
FmtWeeks == {1, 53}
FmtWeekDays == {1, 7}
FmtHours == {0, 23}
FmtMinutes == {0, 59}
FmtSeconds == {0, 60}
FmtOffsetHours == {-5, 0, 1}
FmtOffsetMinutes == {0, 30}
FmtRecurrences == 1..MaxRecurrences

Units(k, S) == {NewUnit(k, PyInt(n)).val : n \in S}

CalendarDates(Y, n) ==
  {CalendarDate(<<PyInt(y), PyInt(m),
                  IF n >= 3 THEN PyInt(d) ELSE None>>).val :
     y \in Y, m \in FmtMonths, d \in FmtDays}

OrdinalDates(Y) ==
  {OrdinalDate(<<PyInt(y), PyInt(d)>>).val : y \in Y, d \in FmtOrdinalDays}

WeekDates(Y, n) ==
  {WeekDate(<<PyInt(y), PyInt(w), IF n >= 3 THEN PyInt(d) ELSE None>>).val :
     y \in Y, w \in FmtWeeks, d \in FmtWeekDays}

Offsets(n) ==
  {UTCOffset(<<PyInt(h), IF n >= 2 THEN PyInt(m) ELSE None>>).val :
     h \in FmtOffsetHours, m \in FmtOffsetMinutes}

SignedHours ==
  {TimeUnitInit("Hour", PyInt(h), TRUE, TRUE).val : h \in FmtOffsetHours}

\* The times with the first n components and an offset from O.
Times(n, O) ==
  {Time(<<PyInt(h), IF n >= 2 THEN PyInt(m) ELSE None,
          IF n >= 3 THEN PyInt(s) ELSE None, o>>).val :
     h \in FmtHours, m \in FmtMinutes, s \in FmtSeconds, o \in O}

DateTimes(D, T) == {DateTime(d, t).val : d \in D, t \in T}

FmtDurations ==
  {Duration(<<PyInt(a), PyInt(b), PyInt(c), PyInt(d), PyInt(e),
              PyInt(f)>>).val :
     a \in {0, 2}, b \in {0, 10}, c \in {15}, d \in {0, 10}, e \in {30},
     f \in {0, 20}}

\* The operands of the intervals: one sample of each kind.
April == DateTime(CalendarDate(<<PyInt(1985), PyInt(4), PyInt(12)>>).val,
                  Time(<<PyInt(23), PyInt(20), PyInt(50)>>).val).val

June == DateTime(CalendarDate(<<PyInt(1985), PyInt(6), PyInt(25)>>).val,
                 Time(<<PyInt(10), PyInt(30), PyInt(0)>>).val).val

Span == Duration(<<PyInt(1), PyInt(2), PyInt(15), PyInt(12), PyInt(30),
                   PyInt(0)>>).val

Recurring(ends) ==
  {RecurringTimeInterval(<<PyInt(n)>> \o ends).val : n \in FmtRecurrences}

\* A family of representations and the values they are applied to: values
\* of the kind with n components, years from the set years, offsets and
\* operands by name.
Family(R, kind, n, years, with) ==
  [reprs |-> R, kind |-> kind, n |-> n, years |-> years, with |-> with]

Families ==
  {Family(ReprsCalendar3, "CalendarDate", 3, FmtYears, ""),
   Family(ReprsCalendar2, "CalendarDate", 2, FmtYears, ""),
   Family(ReprsYear, "Year", 1, FmtYears, ""),
   Family(ReprsExpanded3, "CalendarDate", 3, FmtSignedYears, ""),
   Family(ReprsExpanded2, "CalendarDate", 2, FmtSignedYears, ""),
   Family(ReprsExpandedYear, "Year", 1, FmtSignedYears, ""),
   Family(ReprsOrdinal, "OrdinalDate", 2, FmtYears, ""),
   Family(ReprsExpandedOrdinal, "OrdinalDate", 2, FmtSignedYears, ""),
   Family(ReprsWeek3, "WeekDate", 3, FmtYears, ""),
   Family(ReprsWeek2, "WeekDate", 2, FmtYears, ""),
   Family(ReprsTime3, "Time", 3, {}, "none"),
   Family(ReprsTime2, "Time", 2, {}, "none"),
   Family(ReprsHour, "Hour", 1, FmtHours, ""),
   Family(ReprsTimeZ3, "Time", 3, {}, "utc"),
   Family(ReprsTimeZ2, "Time", 2, {}, "utc"),
   Family(ReprsTimeZ1, "Time", 1, {}, "utc"),
   Family(ReprsOffset2, "UTCOffset", 2, {}, "hm"),
   Family(ReprsOffset1, "SignedHour", 1, {}, ""),
   Family(ReprsTime3Offset2, "Time", 3, {}, "hm"),
   Family(ReprsTime3Offset1, "Time", 3, {}, "h"),
   Family(ReprsTime2Offset2, "Time", 2, {}, "hm"),
   Family(ReprsTime2Offset1, "Time", 2, {}, "h"),
   Family(ReprsTime1Offset2, "Time", 1, {}, "hm"),
   Family(ReprsTime1Offset1, "Time", 1, {}, "h"),
   Family(ReprsDateTime, "CalendarDateTime", 3, {}, "none"),
   Family(ReprsDateTimeZ, "AprilTime", 3, {}, "utc"),
   Family(ReprsDateTimeOffset2, "AprilTime", 3, {}, "hm"),
   Family(ReprsDateTimeOffset1, "AprilTime", 3, {}, "h"),
   Family(ReprsDateTime2, "AprilTime", 2, {}, "none"),
   Family(ReprsOrdinalTime2Z, "OrdinalDateTime", 2, {}, "utc"),
   Family(ReprsWeekTime2Offset2, "WeekDateTime", 2, {}, "hm"),
   Family(ReprsWeekTime2Offset1, "WeekDateTime", 2, {}, "h"),
   Family(ReprsDuration, "Duration", 6, {}, ""),
   Family(ReprsWeeksDuration, "WeeksDuration", 1, {}, ""),
   Family(ReprsInterval, "TimeInterval", 2, {}, "start/end"),
   Family(ReprsStartDuration, "TimeInterval", 2, {}, "start/duration"),
   Family(ReprsDurationEnd, "TimeInterval", 2, {}, "duration/end"),
   Family(ReprsRecurring, "RecurringTimeInterval", 3, {}, "start/end"),
   Family(ReprsRecurringStart, "RecurringTimeInterval", 3, {},
          "start/duration"),
   Family(ReprsRecurringEnd, "RecurringTimeInterval", 3, {}, "duration/end")}

OffsetsOf(with) ==
  CASE with = "none" -> {None}
    [] with = "utc" -> {utc}
    [] OTHER -> Offsets(IF with = "hm" THEN 2 ELSE 1)

DatesOf(kind) ==
  CASE kind = "CalendarDateTime" -> CalendarDates(FmtYears, 3)
    [] kind = "OrdinalDateTime" -> OrdinalDates(FmtYears)
    [] kind = "WeekDateTime" -> WeekDates(FmtYears, 3)
    [] OTHER -> {April.elements[1]}

\* The two ends of an interval, by name.
EndsOf(with) ==
  LET ends(start, end, duration) ==
        CASE with = "start/end" -> <<start, end>>
          [] with = "start/duration" -> <<start, duration>>
          [] OTHER -> <<duration, start>>
  IN ends(April, June, Span)

ValuesOf(f) ==
  CASE f.kind \in {"Year", "Hour"} -> Units(f.kind, f.years)
    [] f.kind = "SignedHour" -> SignedHours
    [] f.kind = "CalendarDate" -> CalendarDates(f.years, f.n)
    [] f.kind = "OrdinalDate" -> OrdinalDates(f.years)
    [] f.kind = "WeekDate" -> WeekDates(f.years, f.n)
    [] f.kind = "UTCOffset" -> OffsetsOf(f.with)
    [] f.kind = "Time" -> Times(f.n, OffsetsOf(f.with))
    [] f.kind = "Duration" -> FmtDurations
    [] f.kind = "WeeksDuration" ->
         {WeeksDuration(<<PyInt(n)>>).val : n \in {0, 6}}
    [] f.kind = "TimeInterval" -> {TimeInterval(EndsOf(f.with)).val}
    [] f.kind = "RecurringTimeInterval" -> Recurring(EndsOf(f.with))
    [] OTHER -> DateTimes(DatesOf(f.kind), Times(f.n, OffsetsOf(f.with)))

FormatCases ==
  UNION {{[repr |-> r, v |-> v] : r \in f.reprs, v \in ValuesOf(f)} :
           f \in Families}

\* The fops of Format(repr) with the default syntax.
OpsOf(repr) == Format(repr, "RecurringTimeInterval").val

\* s = Format(repr).format(v).
FormatValue ==
  /\ call.fn = "none"
  /\ \E c \in FormatCases :
    /\ call' = [fn |-> "format", repr |-> c.repr, v |-> c.v, s |-> <<>>]
    /\ ret' = Format_format(OpsOf(c.repr), c.v)
    /\ UNCHANGED <<heap, objs>>

\* Format(repr).read(s) for the string just formatted.
ReadBack ==
  /\ call.fn = "format"
  /\ ret.status = "ok"
  /\ call' = [call EXCEPT !.fn = "read", !.s = ret.val]
  /\ ret' = Format_read(OpsOf(call.repr), ret.val)
  /\ UNCHANGED <<heap, objs>>

\* Format(repr).format(r) for the value just read.
FormatAgain ==
  /\ call.fn = "read"
  /\ ret.status = "ok"
  /\ call' = [call EXCEPT !.fn = "reformat"]
  /\ ret' = Format_format(OpsOf(call.repr), ret.val)
  /\ UNCHANGED <<heap, objs>>

\* The strings that differ from s by a wrong character at one position, and
\* the strings that end before s does.
Damaged(s) ==
  {[s EXCEPT ![k] = "X"] : k \in 1..Len(s)}
    \cup {SubSeq(s, 1, n) : n \in 0..(Len(s) - 1)}

\* Format(repr).read(d) for a damaged copy d of the string just formatted.
ReadDamaged ==
  /\ call.fn = "format"
  /\ ret.status = "ok"
  /\ Len(ret.val) <= MaxDamaged
  /\ \E d \in Damaged(ret.val) :
    /\ call' = [call EXCEPT !.fn = "read_damaged", !.s = d]
    /\ ret' = Format_read(OpsOf(call.repr), d)
    /\ UNCHANGED <<heap, objs>>

NextFormat == FormatValue \/ ReadBack \/ FormatAgain \/ ReadDamaged \/ Return

SpecFormat == Init /\ [][NextFormat]_vars

(***************************************************************************)
(* The library driven by a client that keeps its objects: heap maps the id *)
(* of an object to its value, a representation holding the ids of its      *)
(* elements, and objs are the client's variables.  A call loads its        *)
(* operands from the heap, and every object it has assigned to is written  *)
(* back under its id.  call.pre is the heap before the call.               *)
(***************************************************************************)
\* The element of a stored representation: the id of a heap object, or the
\* value itself for an int, None or an object that is not in the heap.
Ref(x) == IF x.id = 0 THEN x ELSE [id |-> x.id]

Strip(x) ==
  IF IsRep(x)
  THEN [x EXCEPT !.elements = [i \in 1..Len(x.elements) |->
                                 Ref(x.elements[i])]]
  ELSE x

\* The value of the object id in heap h.
RECURSIVE Load(_, _)
Load(h, id) ==
  LET o == h[id]
  IN IF IsRep(o)
     THEN [o EXCEPT !.elements =
             [i \in 1..Len(o.elements) |->
                IF o.elements[i].id = 0 THEN o.elements[i]
                ELSE Load(h, o.elements[i].id)]]
     ELSE o

\* The object x and all the objects nested in it.
RECURSIVE Parts(_)
Parts(x) ==
  IF IsRep(x)
  THEN LET RECURSIVE Nested(_)
           Nested(i) == IF i > Len(x.elements) THEN <<>>
                        ELSE Parts(x.elements[i]) \o Nested(i + 1)
       IN <<x>> \o Nested(1)
  ELSE <<x>>

\* The heap after the objects ps have been assigned to: each one that is
\* in the heap gets its new value.
Commit(h, ps) ==
  [id \in 1..Len(h) |->
     IF \E k \in 1..Len(ps) : ps[k].id = id
     THEN Strip(ps[CHOOSE k \in 1..Len(ps) : ps[k].id = id])
     ELSE h[id]]

\* The objects an outcome refers to: the value and, where the call has
\* assigned to an object it does not return, that object.
Touched(r) ==
  (IF "written" \in DOMAIN r THEN Parts(r.written) ELSE <<>>)
    \o Parts(r.val)

\* x with an id for each new unit and representation in it, from next on.
RECURSIVE Alloc(_, _)
Alloc(x, next) ==
  IF IsRep(x)
  THEN LET own == IF x.id = 0 THEN next ELSE x.id
           RECURSIVE Each(_, _)
           Each(i, n) ==
             IF i > Len(x.elements) THEN [val |-> <<>>, next |-> n]
             ELSE LET a == Alloc(x.elements[i], n)
                      rest == Each(i + 1, a.next)
                  IN [val |-> <<a.val>> \o rest.val, next |-> rest.next]
           es == Each(1, IF x.id = 0 THEN next + 1 ELSE next)
       IN [val |-> [x EXCEPT !.id = own, !.elements = es.val],
           next |-> es.next]
  ELSE IF x.id = 0 /\ IsUnit(x)
       THEN [val |-> [x EXCEPT !.id = next], next |-> next + 1]
  ELSE [val |-> x, next |-> next]

\* The heap with the object x stored in it, and the id of x.
Store(h, x) ==
  LET stored(a, ps) ==
        [root |-> a.val.id,
         heap |-> [id \in 1..(a.next - 1) |->
                     IF id <= Len(h) THEN h[id]
                     ELSE Strip(ps[CHOOSE k \in 1..Len(ps) : ps[k].id = id])]]
      new(a) == stored(a, Parts(a.val))
  IN new(Alloc(x, Len(h) + 1))

Ints(args) == [i \in 1..Len(args) |-> PyInt(args[i])]

\* The objects the client constructs.
HeapSamples ==
  {Duration(Ints(<<0, 2, 15>>)).val,
   Duration(Ints(<<0, 0, 0, 0, 0, 1>>)).val,
   Duration(Ints(<<1, 2>>)).val,
   Time(Ints(<<23>>)).val,
   CalendarDate(Ints(<<1985, 12, 31>>)).val,
   DateTime(CalendarDate(Ints(<<1985, 12, 31>>)).val,
            Time(Ints(<<23, 59, 59>>)).val).val,
   NewUnit("Year", PyInt(1985)).val,
   NewUnit("Month", None).val}

\* x = cls(args) for one of the samples.
HNew ==
  /\ call.fn = "none"
  /\ Len(objs) < MaxObjs
  /\ \E v \in HeapSamples :
       \E st \in {Store(heap, v)} :
          /\ heap' = st.heap
          /\ objs' = Append(objs, st.root)
          /\ call' = [fn |-> "new", a |-> st.root, b |-> st.root,
                      pre |-> heap]
          /\ ret' = Ok(Load(st.heap, st.root))

\* a.merge(b) for two of the client's objects.
HMerge ==
  /\ call.fn = "none"
  /\ \E i, j \in 1..Len(objs) :
       \E r \in {merge(Load(heap, objs[i]), Load(heap, objs[j]))} :
          /\ heap' = Commit(heap, Touched(r))
          /\ call' = [fn |-> "merge", a |-> objs[i], b |-> objs[j],
                      pre |-> heap]
          /\ ret' = r
          /\ UNCHANGED objs

\* a + b and a - b for a representation a.
HArith ==
  /\ call.fn = "none"
  /\ \E i, j \in 1..Len(objs), op \in {"add", "sub"} :
       /\ IsRep(heap[objs[i]])
       /\ \E r \in {Arith(Load(heap, objs[i]), Load(heap, objs[j]), op)} :
             /\ heap' = Commit(heap, Touched(r))
             /\ call' = [fn |-> op, a |-> objs[i], b |-> objs[j],
                         pre |-> heap]
             /\ ret' = r
             /\ UNCHANGED objs

\* str(a) for a duration or a calendar date.
HStr ==
  /\ call.fn = "none"
  /\ \E i \in 1..Len(objs) :
       /\ IsRep(heap[objs[i]])
       /\ heap[objs[i]].cls \in {"Duration", "CalendarDate"}
       /\ \E r \in {IF heap[objs[i]].cls = "Duration"
                     THEN Duration___str__(Load(heap, objs[i]))
                     ELSE TimeRep___str__(Load(heap, objs[i]))} :
             /\ heap' = IF "written" \in DOMAIN r
                        THEN Commit(heap, Parts(r.written)) ELSE heap
             /\ call' = [fn |-> "str", a |-> objs[i], b |-> objs[i],
                         pre |-> heap]
             /\ ret' = r
             /\ UNCHANGED objs

\* The client keeps the representation a call has returned.
HKeep ==
  /\ call.fn \in {"merge", "add", "sub"}
  /\ ret.status = "ok"
  /\ IsRep(ret.val)
  /\ Len(objs) < MaxObjs
  /\ \E st \in {Store(heap, ret.val)} :
        /\ heap' = st.heap
        /\ objs' = Append(objs, st.root)
        /\ call' = [fn |-> "none"]
        /\ ret' = Ok(None)

NextHeap == HNew \/ HMerge \/ HArith \/ HStr \/ HKeep \/ Return

SpecHeap == Init /\ [][NextHeap]_vars

(***************************************************************************)
(* str() called by concurrent threads on values of one class.  The shared  *)
(* objects are in heap: cache is the class attribute that holds the        *)
(* compiled Format (stdformat, or formatters for a Duration; 0 while it is *)
(* not compiled yet), formats are the Format objects with their attributes *)
(* separators, stack and push, each naming a list, and lists are the list  *)
(* objects, one pair per call, named by the thread that made them.  objs   *)
(* are the values, call the frame of each thread and ret its outcome.  A   *)
(* thread switch can come between any two steps.                           *)
(***************************************************************************)
Threads == 1..MaxThreads

ThreadValues ==
  {CalendarDate(Ints(<<1985, 4, 12>>)).val,
   CalendarDate(Ints(<<2000, 12, 31>>)).val,
   Duration(Ints(<<1, 2>>)).val,
   Duration(Ints(<<3>>)).val}

Running == [status |-> "running", val |-> None]

InitThreads ==
  /\ objs \in {o \in [Threads -> ThreadValues] :
                 \A t \in Threads : o[t].cls = o[1].cls}
  /\ heap = [cache |-> 0, formats |-> <<>>,
             lists |-> [t \in Threads |-> [separators |-> <<>>,
                                           stack |-> <<>>]]]
  /\ call = [t \in Threads |-> [pc |-> "start", x |-> 0, f |-> 0,
                                 elts |-> <<>>, oi |-> 1, ei |-> 1,
                                 live |-> TRUE]]
  /\ ret = [t \in Threads |-> Running]

\* A new Format object for the representation repr.
NewFormat(repr) ==
  [ops |-> Format(repr, "RecurringTimeInterval").val,
   separators |-> 0, stack |-> 0, push |-> 0]

\* The thread reads the class attribute and, when it is not compiled yet,
\* compiles it: ensure_class(self.stdformat, Format), or map(Format, ...)
\* under "not hasattr(self, 'formatters')" for a Duration.
Lookup(t) ==
  /\ call[t].pc = "start"
  /\ IF heap.cache # 0
     THEN /\ call' = [call EXCEPT ![t].x = heap.cache,
                                  ![t].pc = IF objs[t].cls = "Duration"
                                            THEN "enter" ELSE "assign"]
          /\ UNCHANGED heap
     ELSE /\ call' = [call EXCEPT ![t].x = Len(heap.formats) + 1,
                                  ![t].pc = "assign"]
          /\ heap' = [heap EXCEPT !.formats =
                        heap.formats \o
                          (IF objs[t].cls = "Duration"
                           THEN [i \in 1..6 |-> NewFormat(formatters[i])]
                           ELSE <<NewFormat(stdformat(objs[t].cls))>>)]
  /\ UNCHANGED <<ret, objs>>

\* self.__class__.stdformat = ... (or formatters = ...).
Assign(t) ==
  /\ call[t].pc = "assign"
  /\ heap' = [heap EXCEPT !.cache = call[t].x]
  /\ call' = [call EXCEPT ![t].pc = "enter"]
  /\ UNCHANGED <<ret, objs>>

\* The thread reads the class attribute again and calls format on the
\* Format it finds: self.stdformat.format(self), or for a Duration
\* self.formatters[i].format(d) after the loop over the copy d, which
\* returns "PT0S" itself when no component is left.
Enter(t) ==
  /\ call[t].pc = "enter"
  /\ UNCHANGED <<heap, objs>>
  /\ IF objs[t].cls # "Duration"
     THEN /\ call' = [call EXCEPT ![t].f = heap.cache,
                                  ![t].elts = Flatten(objs[t]),
                                  ![t].pc = "separators"]
          /\ UNCHANGED ret
     ELSE \E r \in {Duration___str__(objs[t])} :
            \E d \in {r.written} :
              \E nonzero \in {{i \in 1..6 : d.elements[i].present}} :
                IF nonzero = {}
                THEN /\ call' = [call EXCEPT ![t].pc = "done"]
                     /\ ret' = [ret EXCEPT ![t] = Ok(r.val)]
                ELSE /\ call' =
                          [call EXCEPT
                             ![t].f = heap.cache - 1
                                      + CHOOSE i \in nonzero :
                                          \A k \in nonzero : i <= k,
                             ![t].elts = Flatten(d),
                             ![t].pc = "separators"]
                     /\ UNCHANGED ret

\* self.separators = [].
ResetSeparators(t) ==
  /\ call[t].pc = "separators"
  /\ heap' = [heap EXCEPT !.formats[call[t].f].separators = t,
                          !.lists[t].separators = <<>>]
  /\ call' = [call EXCEPT ![t].pc = "stack"]
  /\ UNCHANGED <<ret, objs>>

\* self.stack = [].
ResetStack(t) ==
  /\ call[t].pc = "stack"
  /\ heap' = [heap EXCEPT !.formats[call[t].f].stack = t,
                          !.lists[t].stack = <<>>]
  /\ call' = [call EXCEPT ![t].pc = "push"]
  /\ UNCHANGED <<ret, objs>>

\* self.push = self.stack.append, for the list self.stack is at that time.
BindPush(t) ==
  /\ call[t].pc = "push"
  /\ heap' = [heap EXCEPT !.formats[call[t].f].push =
                            heap.formats[call[t].f].stack]
  /\ call' = [call EXCEPT ![t].pc = "loop", ![t].oi = 1, ![t].ei = 1,
                          ![t].live = TRUE]
  /\ UNCHANGED <<ret, objs>>

\* One round of the loop of Format.format: op.format(self, elt) pops from
\* the list self.separators is now and pushes with self.push as it is now.
Step(t) ==
  /\ call[t].pc = "loop"
  /\ \E c \in {call[t]} :
     \E fmt \in {heap.formats[c.f]} :
     \E r \in {FopFormat(fmt.ops[c.oi],
                         [separators |-> heap.lists[fmt.separators].separators,
                          out |-> heap.lists[fmt.push].stack],
                         IF c.live THEN c.elts[c.ei] ELSE None)} :
       /\ heap' = [heap EXCEPT
                     !.lists = [l \in Threads |->
                        [separators |-> IF l = fmt.separators
                                        THEN r.m.separators
                                        ELSE heap.lists[l].separators,
                         stack |-> IF l = fmt.push THEN r.m.out
                                   ELSE heap.lists[l].stack]]]
       /\ call' =
            [call EXCEPT ![t] =
               IF (r.result # "None" /\ c.oi = Len(fmt.ops))
                  \/ (r.result # "False" /\ ~c.live)
               THEN [c EXCEPT !.pc = "join"]
               ELSE [c EXCEPT
                       !.oi = IF r.result # "None" THEN c.oi + 1 ELSE c.oi,
                       !.ei = IF r.result # "False" /\ c.ei < Len(c.elts)
                              THEN c.ei + 1 ELSE c.ei,
                       !.live = IF r.result # "False"
                                THEN c.ei < Len(c.elts) ELSE c.live]]
  /\ UNCHANGED <<ret, objs>>

\* return "".join(self.stack).
Join(t) ==
  /\ call[t].pc = "join"
  /\ ret' = [ret EXCEPT ![t] =
               Ok(heap.lists[heap.formats[call[t].f].stack].stack)]
  /\ call' = [call EXCEPT ![t].pc = "done"]
  /\ UNCHANGED <<heap, objs>>

NextThreads ==
  \E t \in Threads :
    \/ Lookup(t)
    \/ Assign(t)
    \/ Enter(t)
    \/ ResetSeparators(t)
    \/ ResetStack(t)
    \/ BindPush(t)
    \/ Step(t)
    \/ Join(t)

SpecThreads == InitThreads /\ [][NextThreads]_vars

(***************************************************************************)
(* The arithmetic and the merge algebra driven by a client: each action is *)
(* one call on values the client has constructed.                          *)
(***************************************************************************)
\* The offsets of the times: none given, UTC, and +01:00.
AlgOffsets == {None, utc, UTCOffset(<<PyInt(1), PyInt(0)>>).val}

\* Complete times, 24:00:00 and the leap second 23:59:60 among them.
AlgTimes ==
  {Time(<<PyInt(h), PyInt(m), PyInt(s), o>>).val :
     h \in {0, 23, 24}, m \in {0, 20, 59}, s \in {0, 50, 60},
     o \in AlgOffsets}

\* Durations of hours, minutes and seconds, and durations of reduced
\* accuracy.
AlgDurations ==
  {Duration(Ints(<<0, 0, 0, H, N, S>>)).val :
     H \in {0, 1, 25}, N \in {0, 39, 61}, S \in {0, 10, 61}}
  \cup {Duration(Ints(<<1>>)).val, Duration(Ints(<<0, 1>>)).val,
        Duration(Ints(<<0, 0, 1>>)).val, Duration(Ints(<<0, 0, 0, 1>>)).val,
        Duration(Ints(<<1, 2, 3, 4, 5, 6>>)).val}

\* time + duration and time - duration.
CallTimeArith ==
  /\ call.fn = "none"
  /\ \E t \in AlgTimes, dur \in AlgDurations, op \in {"add", "sub"} :
    /\ call' = [fn |-> "time_arith", op |-> op, self |-> t, other |-> dur]
    /\ ret' = Time_add_sub(t, dur, op)
    /\ UNCHANGED <<heap, objs>>

\* Date-times of a complete calendar date and a time, complete or of
\* reduced accuracy.
AlgDateTimes ==
  {DateTime(CalendarDate(Ints(d)).val, t).val :
     d \in {<<1985, 4, 12>>, <<1985, 12, 31>>, <<1984, 2, 29>>},
     t \in {Time(Ints(<<0, 0, 0>>)).val, Time(Ints(<<23, 20, 50>>)).val,
            Time(Ints(<<23, 59, 60>>)).val, Time(Ints(<<24, 0, 0>>)).val,
            Time(Ints(<<23, 59>>)).val, Time(Ints(<<23>>)).val}}

\* datetime + duration and datetime - duration.
CallDateTimeArith ==
  /\ call.fn = "none"
  /\ \E dt \in AlgDateTimes, dur \in AlgDurations, op \in {"add", "sub"} :
    /\ call' = [fn |-> "datetime_arith", op |-> op, self |-> dt,
                other |-> dur]
    /\ ret' = DateTime_add_sub(dt, dur, op)
    /\ UNCHANGED <<heap, objs>>

\* Durations of every accuracy, from none to all six components.
AddDurations ==
  {Duration(Ints(SubSeq(s, 1, n))).val :
     s \in {<<5, 0, 4, 6, 0, 0>>, <<0, 6, 3, 2, 12, 0>>, <<1, 2, 3, 4, 5, 6>>},
     n \in 0..6}

AddWeeks ==
  {WeeksDuration(<<>>).val}
    \cup {WeeksDuration(Ints(<<w>>)).val : w \in 0..MaxWeeks}

\* Right-hand operands that are not durations: cardinals, an ordinal unit,
\* an int, None and a time.
AddOthers ==
  {NewUnit(k, PyInt(v)).val :
     k \in {"Weeks", "Days", "Years", "Seconds", "Recurrences"},
     v \in {0, 3}}
  \cup {NewUnit("Weeks", None).val, NewUnit("Day", PyInt(3)).val, PyInt(3),
        None, Time(Ints(<<12>>)).val}

\* a + b for a duration a.
CallDurationAdd ==
  /\ call.fn = "none"
  /\ \E a \in AddDurations \cup AddWeeks,
        b \in AddDurations \cup AddWeeks \cup AddOthers :
    /\ call' = [fn |-> "duration_add", self |-> a, other |-> b]
    /\ ret' = Duration___add__(a, b)
    /\ UNCHANGED <<heap, objs>>

\* The cardinals of the six kinds of a Duration.
OrCardinals ==
  {NewUnit(DurationUnits[i], PyInt(v)).val : i \in 1..6, v \in {0, 1, 15}}

\* a | b for two cardinals.
CallCardinalOr ==
  /\ call.fn = "none"
  /\ \E a \in OrCardinals, b \in OrCardinals :
    /\ call' = [fn |-> "cardinal_or", self |-> a, other |-> b]
    /\ ret' = TimeUnit___or__(a, b)
    /\ UNCHANGED <<heap, objs>>

\* Ordinal units of every kind with a range, with values in range.
MergeUnits == {NewUnit(k, PyInt(v)).val : k \in OrdinalKinds \ {"Day"},
                                          v \in {1, 7}}

\* a.merge(b) for two ordinal units.
CallUnitMerge ==
  /\ call.fn = "none"
  /\ \E a \in MergeUnits, b \in MergeUnits :
    /\ call' = [fn |-> "unit_merge", self |-> a, other |-> b]
    /\ ret' = merge(a, b)
    /\ UNCHANGED <<heap, objs>>

\* Durations of every accuracy, each component zero or not.
StrDurations ==
  {Duration(Ints(SubSeq(<<y, m, d, h, n, s>>, 1, len))).val :
     y \in {0, 1}, m \in {0, 2}, d \in {0, 15}, h \in {0, 12}, n \in {0, 30},
     s \in {0, 5}, len \in 0..6}

\* str(d) for a duration d.
CallDurationStr ==
  /\ call.fn = "none"
  /\ \E d \in StrDurations :
    /\ call' = [fn |-> "duration_str", self |-> d]
    /\ ret' = Duration___str__(d)
    /\ UNCHANGED <<heap, objs>>

\* The widths (frac_min, frac_max) of the fractional part of an element,
\* and the values formatted with them: 12 as an int and as a Decimal with
\* no, two and four digits after the point.
FracWidths ==
  {<<0, NoMax>>, <<1, NoMax>>, <<2, NoMax>>, <<4, NoMax>>, <<2, 2>>,
   <<3, 3>>}

FracValues ==
  {NewUnit("TimeUnit", PyInt(12)).val}
    \cup {DecimalInit("TimeUnit", PyDecimal(12, f), FALSE).val :
            f \in {<<>>, <<"0">>, <<"5">>, <<"3", "4">>, <<"0", "5">>,
                   <<"3", "4", "5", "6">>, <<"0", "0", "7", "5">>}}

\* m.format(value) for a format machine m with exactly one fop, an
\* Element(TimeUnit, (2, 2), (frac_min, frac_max)).
CallElementFormat ==
  /\ call.fn = "none"
  /\ \E w \in FracWidths, v \in FracValues :
    /\ call' = [fn |-> "element_format", frac_min |-> w[1],
                frac_max |-> w[2], value |-> v]
    /\ ret' = Format_format(
                <<ElementFrac("TimeUnit", 2, 2, w[1], w[2], ",", FALSE)>>, v)
    /\ UNCHANGED <<heap, objs>>

\* The runs of digit letters compiled: a letter of the default syntax, the
\* length of the run, whether its last letter is underlined, and whether
\* the underline is spelled with a low line before the letter.
RunLetters == {"Y", "D", "h", "n"}

RunOf(letter, k, underlined, lowline) ==
  [j \in 1..(k - 1) |-> letter]
    \o (IF ~underlined THEN <<letter>>
        ELSE IF lowline THEN <<"_", letter>>
        ELSE <<letter, LowLine>>)

\* Format(repr).ops for a run of digit letters.
CallCompile ==
  /\ call.fn = "none"
  /\ \E letter \in RunLetters, k \in 1..MaxRun, underlined \in BOOLEAN,
        lowline \in BOOLEAN :
    /\ underlined \/ ~lowline
    /\ call' = [fn |-> "compile", letter |-> letter, k |-> k,
                underlined |-> underlined, lowline |-> lowline]
    /\ ret' = Format(RunOf(letter, k, underlined, lowline),
                     "RecurringTimeInterval")
    /\ UNCHANGED <<heap, objs>>

NextAlgebra ==
  \/ Return
  \/ CallElementFormat
  \/ CallCompile
  \/ CallTimeArith
  \/ CallDateTimeArith
  \/ CallDurationAdd
  \/ CallCardinalOr
  \/ CallUnitMerge
  \/ CallDurationStr

SpecAlgebra == Init /\ [][NextAlgebra]_vars

(***************************************************************************)
(* One Format object used for one call after another, each call run fop by *)
(* fop.  heap is the Format object: its fops and the attributes separators,*)
(* stack, input and i that the calls assign (the stack of a format call is *)
(* written joined).  call is the frame of the call in progress and ret the *)
(* outcome of the call that has ended (the empty string while a format     *)
(* call is in progress).  objs is the history of the calls:                *)
(* for a read, sides gives for each entry of the stack the number of hard  *)
(* separators read before the entry was pushed, hard is the number read so *)
(* far, crossed tells that a merge was applied to entries of different     *)
(* sides while the fops ran, and absent that a merge of the final fold     *)
(* returned no value; failed tells that an earlier read on this object     *)
(* raised.                                                                 *)
(***************************************************************************)
MachineTime == Time(Ints(<<15, 27, 46>>)).val

FirstWeek == WeekDate(Ints(<<1985, 15, 5>>)).val

NextWeek == WeekDate(Ints(<<1985, 16, 1>>)).val

\* The representations and the values each one formats.
MachineCases ==
  {[repr |-> <<"h", "h", ":", "m", "m">>,
    values |-> {Time(Ints(<<23>>)).val, Time(Ints(<<23, 20>>)).val}],
   [repr |-> <<"h", "h", "m", "m", "s", "s", PlusMinus, "h", "h", "m", "m">>,
    values |-> {Time(Ints(<<15, 27, 46>>) \o <<o>>).val :
                  o \in {UTCOffset(Ints(<<1, 0>>)).val,
                         UTCOffset(Ints(<<-5, 30>>)).val}}],
   [repr |-> <<"h", "h", ":", "m", "m", ":", "s", "s", PlusMinus, "h", "h">>,
    values |-> {Time(Ints(<<15, 27, 46>>) \o <<o>>).val :
                  o \in {UTCOffset(Ints(<<1>>)).val,
                         UTCOffset(Ints(<<-5>>)).val}}],
   [repr |-> <<"h", "h", PlusMinus, "h", "h">>,
    values |-> {Time(<<PyInt(23), None, None,
                       UTCOffset(Ints(<<1>>)).val>>).val}],
   [repr |-> <<"h", "h", ":", "m", "m", PlusMinus, "h", "h", ":", "m", "m">>,
    values |-> {Time(<<PyInt(23), None, None,
                       UTCOffset(Ints(<<1, 0>>)).val>>).val}],
   [repr |-> <<"h", "h", "m", "m", "s", "s", "Z">>,
    values |-> {Time(Ints(<<23, 20, 30>>) \o <<utc>>).val,
                Time(Ints(<<23, 20, 30>>)).val,
                Time(Ints(<<23, 20, 30>>)
                       \o <<UTCOffset(Ints(<<4, 0>>)).val>>).val}],
   [repr |-> <<"Y", "Y", "Y", "Y", "-", "M", "M", "-", "D", "D">>,
    values |-> {CalendarDate(Ints(<<1985, 4, 12>>)).val,
                CalendarDate(Ints(<<1985, 4>>)).val,
                CalendarDate(Ints(<<1985>>)).val}],
   [repr |-> <<"Y", "Y", "Y", "Y", "M", "M", "D", "D", "T", "h", "h", "m",
               "m", "s", "s", "/", "Y", "Y", "Y", "Y", "M", "M", "D", "D",
               "T", "h", "h", "m", "m", "s", "s">>,
    values |-> {TimeInterval(<<April, June>>).val}],
   [repr |-> <<"Y", "Y", "Y", "Y", "-", "W", "w", "w", "-", "D", "/", "Y",
               "Y", "Y", "Y", "-", "W", "w", "w", "-", "D">>,
    values |-> {TimeInterval(<<FirstWeek, NextWeek>>).val}],
   [repr |-> <<"Y", "Y", "Y", "Y", "M", "M", "D", "D", "T", "h", "h", "m",
               "m", "s", "s", "/", "P", "n", "n", LowLine, "Y", "n", "n",
               LowLine, "M", "n", "n", LowLine, "D", "T", "n", "n", LowLine,
               "H", "n", "n", LowLine, "M", "n", "n", LowLine, "S">>,
    values |-> {TimeInterval(<<April, Span>>).val}],
   [repr |-> <<"R", "n", LowLine, "/", "Y", "Y", "Y", "Y", "M", "M", "D",
               "D", "T", "h", "h", "m", "m", "s", "s", "/", "Y", "Y", "Y",
               "Y", "M", "M", "D", "D", "T", "h", "h", "m", "m", "s", "s">>,
    values |-> Recurring(<<April, June>>)],
   [repr |-> <<"P", "n", "n", LowLine, "Y", "n", "n", LowLine, "M", "n", "n",
               LowLine, "D", "T", "n", "n", LowLine, "H", "n", "n", LowLine,
               "M", "n", "n", LowLine, "S">>,
    values |-> {Span}]}

\* The strings that differ from s at its last character, and the strings
\* that end at the middle of s or one character before its end.
Spoiled(s) ==
  IF Len(s) = 0 THEN {}
  ELSE {[s EXCEPT ![Len(s)] = "X"], SubSeq(s, 1, Len(s) - 1),
        SubSeq(s, 1, Len(s) \div 2)}

\* The strings a representation reads: what it writes for its values, and
\* these strings spoiled.
MachineStrings(case) ==
  LET written == {Format_format(OpsOf(case.repr), v) : v \in case.values}
      good == {w.val : w \in {x \in written : x.status = "ok"}}
  IN good \cup UNION {Spoiled(s) : s \in good}

\* No call in progress.
Idle ==
  [fn |-> "none", pc |-> "idle", arg |-> None, elts |-> <<>>, oi |-> 0,
   ei |-> 0, live |-> FALSE, obj |-> None, k |-> 0]

\* The str a call returns, among the values of ret.
PyStr(chars) == [kind |-> "str", chars |-> chars]

\* The history at the start of a call.
History(failed) ==
  [sides |-> <<>>, hard |-> 0, crossed |-> FALSE, absent |-> FALSE,
   failed |-> failed]

\* Format(repr): a Format object has its fops and no other attribute yet.
InitMachine ==
  /\ \E case \in MachineCases :
       heap = [repr |-> case.repr, ops |-> OpsOf(case.repr),
               separators |-> <<>>, stack |-> <<>>, input |-> <<>>, i |-> 0]
  /\ call = Idle
  /\ ret = Ok(None)
  /\ objs = History(FALSE)

\* The case of the Format object.
MachineCase == CHOOSE case \in MachineCases : case.repr = heap.repr

\* The assignments Format.read starts with.
ReadEnter(f, string) ==
  [f EXCEPT !.input = [k \in 1..Len(string) |-> Upper(string[k])], !.i = 1,
            !.stack = <<>>]

\* A call that leaves the pending separators of the call before.
FormatEnterKeep(f) == [f EXCEPT !.stack = <<>>]

\* The assignments Format.format starts with.
FormatEnter(f) == [f EXCEPT !.separators = <<>>, !.stack = <<>>]

\* Format.format(v) up to the loop: the attributes are assigned, and the
\* first element and the first fop are fetched.
MFormat ==
  /\ call.pc = "idle"
  /\ \E v \in MachineCase.values :
       \E elts \in {Flatten(v)} :
         /\ heap' = FormatEnter(heap)
         /\ IF Len(elts) = 0 \/ Len(heap.ops) = 0
            THEN /\ call' = [Idle EXCEPT !.fn = "format", !.pc = "done",
                                         !.arg = v]
                 /\ ret' = Err("StopIteration")
            ELSE /\ call' = [Idle EXCEPT !.fn = "format", !.pc = "loop",
                                         !.arg = v, !.elts = elts, !.oi = 1,
                                         !.ei = 1, !.live = TRUE]
                 /\ ret' = Ok(None)
  /\ objs' = History(objs.failed)

\* One round of the loop of Format.format; the call returns the joined
\* stack when the loop ends.
MFormatRound ==
  /\ call.pc = "loop"
  /\ \E r \in {FopFormat(heap.ops[call.oi],
                          [separators |-> heap.separators, out |-> heap.stack],
                          IF call.live THEN call.elts[call.ei] ELSE None)} :
       /\ heap' = [heap EXCEPT !.separators = r.m.separators,
                               !.stack = r.m.out]
       /\ IF (r.result # "None" /\ call.oi = Len(heap.ops))
             \/ Breaks(r.result, call.live)
          THEN /\ call' = [call EXCEPT !.pc = "done"]
               /\ ret' = Ok(PyStr(r.m.out))
          ELSE /\ call' =
                    [call EXCEPT
                       !.oi = IF r.result # "None" THEN call.oi + 1
                              ELSE call.oi,
                       !.ei = IF r.result # "False"
                                 /\ call.ei < Len(call.elts)
                              THEN call.ei + 1 ELSE call.ei,
                       !.live = IF r.result # "False"
                                THEN call.ei < Len(call.elts)
                                ELSE call.live]
               /\ UNCHANGED ret
  /\ UNCHANGED objs

\* Format.read(string) up to the loop over the fops.
MRead ==
  /\ call.pc = "idle"
  /\ \E s \in MachineStrings(MachineCase) :
       /\ heap' = ReadEnter(heap, s)
       /\ call' = [Idle EXCEPT !.fn = "read", !.pc = "ops", !.arg = s,
                               !.oi = 1]
  /\ ret' = Ok(None)
  /\ objs' = History(objs.failed)

\* The call raises e.
Raise(e) ==
  /\ call' = [call EXCEPT !.pc = "done"]
  /\ ret' = Err(e)

\* One round of the loop of Format.read over the fops: op.read(self), and
\* the merge of the two entries on top of the stack when it returns True.
\* An IndexError of the merge, or of the stack when it has one entry,
\* leaves the stack as the fop left it.
MReadOp ==
  /\ call.pc = "ops"
  /\ call.oi <= Len(heap.ops)
  /\ \E fop \in {heap.ops[call.oi]} :
     \E r \in {FopRead(fop, heap.input, heap.i, heap.stack)} :
     \E n \in {Len(r.stack)} :
     \E hard \in {IF fop.op = "HardSeparator" THEN objs.hard + 1
                  ELSE objs.hard} :
     \E sides \in {IF n > Len(heap.stack) THEN Append(objs.sides, hard)
                   ELSE objs.sides} :
       IF r.status # "ok"
       THEN /\ Raise(r.status)
            /\ heap' = [heap EXCEPT
                          !.i = IF fop.op # "Element"
                                   /\ Literal_read(fop, heap.input, heap.i)
                                THEN heap.i + 1 ELSE heap.i]
            /\ UNCHANGED objs
       ELSE IF ~r.merge \/ n < 2
       THEN /\ heap' = [heap EXCEPT !.i = r.i, !.stack = r.stack]
            /\ call' = [call EXCEPT !.oi = call.oi + 1]
            /\ objs' = [objs EXCEPT !.hard = hard, !.sides = sides]
            /\ UNCHANGED ret
       ELSE \E merged \in {merge(r.stack[n - 1], r.stack[n])} :
              \E crossed \in {objs.crossed \/ sides[n - 1] # sides[n]} :
              IF merged.status \notin {"ok", "IndexError"}
              THEN /\ Raise(merged.status)
                   /\ heap' = [heap EXCEPT !.i = r.i, !.stack = r.stack]
                   /\ objs' = [objs EXCEPT !.hard = hard, !.sides = sides,
                                           !.crossed = crossed]
              ELSE IF merged.status = "ok" /\ Truthy(merged.val)
              THEN /\ heap' = [heap EXCEPT
                                 !.i = r.i,
                                 !.stack = Append(SubSeq(r.stack, 1, n - 2),
                                                  merged.val)]
                   /\ call' = [call EXCEPT !.oi = call.oi + 1]
                   /\ objs' = [objs EXCEPT !.hard = hard,
                                           !.sides = SubSeq(sides, 1, n - 1),
                                           !.crossed = crossed]
                   /\ UNCHANGED ret
              ELSE /\ heap' = [heap EXCEPT !.i = r.i, !.stack = r.stack]
                   /\ call' = [call EXCEPT !.oi = call.oi + 1]
                   /\ objs' = [objs EXCEPT !.hard = hard, !.sides = sides,
                                           !.crossed = crossed]
                   /\ UNCHANGED ret

\* obj = self.stack[0], when the fops have run.
MFoldStart ==
  /\ call.pc = "ops"
  /\ call.oi > Len(heap.ops)
  /\ IF Len(heap.stack) = 0 THEN Raise("IndexError")
     ELSE /\ call' = [call EXCEPT !.pc = "fold", !.obj = heap.stack[1],
                                  !.k = 2]
          /\ UNCHANGED ret
  /\ UNCHANGED <<heap, objs>>

\* One round of the bottom-up merges, or the return of obj after the last.
MFold ==
  /\ call.pc = "fold"
  /\ UNCHANGED heap
  /\ IF call.k > Len(heap.stack)
     THEN /\ call' = [call EXCEPT !.pc = "done"]
          /\ ret' = Ok(call.obj)
          /\ UNCHANGED objs
     ELSE \E r \in {Fold(call.obj, heap.stack[call.k])} :
          \E merged \in {merge(call.obj, heap.stack[call.k])} :
            /\ objs' = [objs EXCEPT
                          !.absent = objs.absent
                                       \/ (merged.status = "ok"
                                           /\ ~Truthy(merged.val))]
            /\ IF r.status # "ok" THEN Raise(r.status)
               ELSE /\ call' = [call EXCEPT !.obj = r.val, !.k = call.k + 1]
                    /\ UNCHANGED ret

\* The caller has the outcome; the Format object stays as the call left
\* it.
MReturn ==
  /\ call.pc = "done"
  /\ call' = Idle
  /\ ret' = Ok(None)
  /\ objs' = History(objs.failed \/ (call.fn = "read" /\ ret.status # "ok"))
  /\ UNCHANGED heap

NextMachine ==
  \/ MFormat
  \/ MFormatRound
  \/ MRead
  \/ MReadOp
  \/ MFoldStart
  \/ MFold
  \/ MReturn

SpecMachine == InitMachine /\ [][NextMachine]_vars

\* The position of the call in progress.
cursor == <<call.pc, call.oi, call.ei, call.live>>

\* The scheduling of a single thread: a call that is in the loop of
\* Format.format goes on to the next round.
SpecMachineFair == SpecMachine /\ WF_cursor(MFormatRound)

(***************************************************************************)
(* CalendarDate.add_sub run round by round: heap holds the local variables *)
(* year, month and day, call the operands and the position in the method,  *)
(* and ret the outcome.                                                    *)
(***************************************************************************)
InitCalendar ==
  /\ call \in [fn : {"add_sub"}, pc : {"start"}, op : {"add", "sub"},
               self : Dates, other : Durations, rounds : {0}]
  /\ ret = Ok(None)
  /\ heap = [year |-> 0, month |-> 0, day |-> 0]
  /\ objs = <<>>

\* self.add_sub(other, op) up to the while loop, for a Duration other.  A
\* date with no month or no day returns before the loop.
DStart ==
  /\ call.pc = "start"
  /\ \E d \in {call.self}, dur \in {call.other}, op \in {call.op} :
     \E year0 \in {ApplyOp(op, IntOf(Attr(d, "Year")),
                           IntOf(Attr(dur, "Years")))} :
     \E sm \in {Attr(d, "Month")}, sd \in {Attr(d, "Day")} :
     \E c \in {divmod_1(ApplyOp(op, IntOf(sm), IntOf(Attr(dur, "Months"))),
                        12)} :
       IF ~Truthy(sm)
       THEN /\ call' = [call EXCEPT !.pc = "done"]
            /\ ret' = CalendarDate(<<PyInt(year0)>>)
            /\ heap' = [year |-> year0, month |-> 0, day |-> 0]
       ELSE IF ~Truthy(sd)
       THEN /\ call' = [call EXCEPT !.pc = "done"]
            /\ ret' = CalendarDate(<<PyInt(year0 + c.q), PyInt(c.r)>>)
            /\ heap' = [year |-> year0 + c.q, month |-> c.r, day |-> 0]
       ELSE /\ call' = [call EXCEPT !.pc = "while"]
            /\ ret' = Ok(None)
            /\ heap' = [year |-> year0 + c.q, month |-> c.r,
                        day |-> ApplyOp(op,
                                        ClipDay(IntOf(sd), year0 + c.q, c.r),
                                        IntOf(Attr(dur, "Days")))]
  /\ UNCHANGED objs

\* The condition of the while loop.
Outside == heap.day > dim(heap.year, heap.month) \/ heap.day < 1

\* One round of the while loop.
DRound ==
  /\ call.pc = "while"
  /\ Outside
  /\ heap' = NormaliseRound(heap.year, heap.month, heap.day)
  /\ call' = [call EXCEPT !.rounds = Min(call.rounds + 1, MaxRounds)]
  /\ UNCHANGED <<ret, objs>>

\* The end of the loop: return CalendarDate(year, month, day).
DExit ==
  /\ call.pc = "while"
  /\ ~Outside
  /\ call' = [call EXCEPT !.pc = "done"]
  /\ ret' = CalendarDate(<<PyInt(heap.year), PyInt(heap.month),
                           PyInt(heap.day)>>)
  /\ UNCHANGED <<heap, objs>>

NextCalendar == DStart \/ DRound \/ DExit

SpecCalendar == InitCalendar /\ [][NextCalendar]_vars

\* The scheduling of a single thread: a loop in progress goes on.
SpecCalendarFair == SpecCalendar /\ WF_heap(DRound)

(***************************************************************************)
(* Properties of the units, the constructors and the calendar arithmetic.  *)
(***************************************************************************)
\* The ranges the documentation gives for the ordinal kinds.
DocRange(k) ==
  CASE k = "Year" -> <<0, 9999>>
    [] k = "Month" -> <<1, 12>>
    [] k = "Week" -> <<1, 53>>
    [] k = "DayOfYear" -> <<1, 366>>
    [] k = "DayOfMonth" -> <<1, 31>>
    [] k = "DayOfWeek" -> <<1, 7>>
    [] k = "Hour" -> <<0, 24>>
    [] k = "Minute" -> <<0, 59>>
    [] k = "Second" -> <<0, 60>>

DocKinds == OrdinalKinds \ {"Day"}

\* C6: a unit of an ordinal kind with range (min, max) is constructed from a
\* present value v exactly when min <= |v| <= max, and is rejected with
\* InvalidTimeUnit otherwise; an absent value is always accepted.
C6_OrdinalRange ==
  (call.fn = "NewUnit" /\ call.kind \in DocKinds) =>
    LET r == DocRange(call.kind)
        v == call.arg.value
        inrange == r[1] <= Abs(v) /\ Abs(v) <= r[2]
    IN /\ ret.status \in {"ok", "InvalidTimeUnit"}
       /\ (ret.status = "ok") <=> (call.arg = None \/ inrange)
       /\ ret.status = "ok" =>
            /\ ret.val.kind = call.kind
            /\ ret.val.present = call.arg.present
            /\ ret.val.value = v

C6_Witness ==
  /\ call.fn = "NewUnit"
  /\ call.kind = "Month"
  /\ call.arg = PyInt(-12)
  /\ ret.status = "ok"

\* C7: CalendarDate(y, m, d) makes its third element a DayOfMonth, so a day
\* whose absolute value is outside 1..31 is rejected with InvalidTimeUnit.
C7_DayOfMonthCoercion ==
  (/\ call.fn = "Construct"
   /\ call.cls = "CalendarDate"
   /\ call.args[1].present /\ call.args[2].present /\ call.args[3].present
   /\ call.args[2].value \in 1..12) =>
    IF Abs(call.args[3].value) \in 1..31
    THEN ret.status = "ok" /\ ret.val.elements[3].kind = "DayOfMonth"
    ELSE ret.status = "InvalidTimeUnit"

\* The length of a month in the proleptic Gregorian calendar.
GregorianLength(y, m) ==
  IF m \in {1, 3, 5, 7, 8, 10, 12} THEN 31
  ELSE IF m \in {4, 6, 9, 11} THEN 30
  ELSE IF (y % 4 = 0 /\ y % 100 # 0) \/ y % 400 = 0 THEN 29
  ELSE 28

\* C8: days_in_month(y, m) is the proleptic-Gregorian length of month m of
\* year y for m in 1..12, and fails with IndexError for any other m.
C8_DaysInMonth ==
  call.fn = "days_in_month" =>
    IF call.month \in 1..12
    THEN ret = Ok(PyInt(GregorianLength(call.year, call.month)))
    ELSE ret.status = "IndexError"

IsComplete(date) == \A i \in 1..3 : date.elements[i].present

Sign(op) == IF op = "add" THEN 1 ELSE -1

\* The year and month reached from date by the years and months of dur.
TargetMonth(date, dur, op) ==
  LET total == 12 * (date.elements[1].value
                     + Sign(op) * IntOf(dur.elements[1]))
               + (date.elements[2].value - 1)
               + Sign(op) * IntOf(dur.elements[2])
  IN [year |-> total \div 12, month |-> (total % 12) + 1]

DateIs(rep, y, m, d) ==
  /\ rep.cls = "CalendarDate"
  /\ Len(rep.elements) = 3
  /\ \A i \in 1..3 : rep.elements[i].present
  /\ rep.elements[1].value = y
  /\ rep.elements[2].value = m
  /\ rep.elements[3].value = d

\* C9: for a complete date (y, m, d), 1 <= d <= 31, and a duration of Y
\* years, M months and no days, date +/- duration is (y', m', min(d,
\* days_in_month(y', m'))) with 12*y' + (m'-1) = 12*(y +/- Y) + (m-1) +/- M.
C9_MonthArithmeticClips ==
  (/\ call.fn = "date_arith"
   /\ IsComplete(call.self)
   /\ IntOf(call.other.elements[3]) = 0) =>
    LET t == TargetMonth(call.self, call.other, call.op)
    IN /\ ret.status = "ok"
       /\ DateIs(ret.val, t.year, t.month,
                 Min(call.self.elements[3].value, dim(t.year, t.month)))

C9_Witness ==
  /\ call.fn = "date_arith"
  /\ call.op = "add"
  /\ DateIs(call.self, 1984, 1, 31)
  /\ IntOf(call.other.elements[1]) = 0
  /\ IntOf(call.other.elements[2]) = 1
  /\ IntOf(call.other.elements[3]) = 0
  /\ ret.status = "ok"
  /\ DateIs(ret.val, 1984, 2, 29)

\* Computing date + dur clips the day when it exceeds the length of the
\* month reached.
Clips(date, dur) ==
  LET t == TargetMonth(date, dur, "add")
  IN date.elements[3].value > dim(t.year, t.month)

\* The date is complete and its day is a day of its month, by the length
\* the library gives the month.
IsCalendarDay(date) ==
  /\ IsComplete(date)
  /\ date.elements[3].value >= 1
  /\ date.elements[3].value
       <= dim(date.elements[1].value, date.elements[2].value)

\* C10 as stated: (d + D) - D == d for every complete date d and every
\* duration D of years, months and days whose addition does not clip the
\* day.
C10_AddThenSubtract ==
  (/\ call.fn = "date_arith"
   /\ call.undo
   /\ IsCalendarDay(call.orig)
   /\ ~Clips(call.orig, call.other)) =>
    ret.status = "ok" /\ PyEq(ret.val, call.orig)

DaysOnly(dur) == IntOf(dur.elements[1]) = 0 /\ IntOf(dur.elements[2]) = 0

NoDays(dur) == IntOf(dur.elements[3]) = 0

\* C10 amended: (d + D) - D == d for every complete date d and every
\* duration D that has only days, or only years and months, whose addition
\* does not clip the day.
C10_AddThenSubtractUnmixed ==
  (/\ call.fn = "date_arith"
   /\ call.undo
   /\ IsCalendarDay(call.orig)
   /\ DaysOnly(call.other) \/ NoDays(call.other)
   /\ ~Clips(call.orig, call.other)) =>
    ret.status = "ok" /\ PyEq(ret.val, call.orig)

C10_Witness ==
  /\ call.fn = "date_arith"
  /\ call.undo
  /\ DateIs(call.orig, 1983, 1, 31)
  /\ DaysOnly(call.other)
  /\ IntOf(call.other.elements[3]) = 29
  /\ DateIs(call.self, 1983, 3, 1)
  /\ ret.status = "ok"
  /\ DateIs(ret.val, 1983, 1, 31)

\* The number of leading arguments that take part in the accuracy check.
CheckedArgs(c, args) == IF c = "Time" THEN 3 ELSE Len(args)

\* C3: constructing a representation from elements that coerce to their
\* kinds raises ValueError exactly when an absent element is followed by a
\* present one in the checked tuple, which excludes the UTC offset of a Time.
C3_ReductionRejected ==
  (/\ call.fn = "Construct"
   /\ ret.status # "InvalidTimeUnit"
   /\ call.cls = "Duration" =>
        \A i \in 1..Len(call.args) : call.args[i].value >= 0) =>
    LET n == CheckedArgs(call.cls, call.args)
        gap == \E i \in 1..n : \E j \in (i + 1)..n :
                 call.args[i] = None /\ call.args[j] # None
    IN /\ ret.status \in {"ok", "ValueError"}
       /\ (ret.status = "ValueError") <=> gap

C3_Witness ==
  /\ call.fn = "Construct"
  /\ call.cls = "Time"
  /\ call.args[1] = PyInt(23)
  /\ call.args[2] = None
  /\ call.args[3] = None
  /\ call.args[4] = UTCOffset(<<PyInt(1), PyInt(0)>>).val
  /\ ret.status = "ok"
  /\ Len(ret.val.elements) = 4
  /\ ret.val.elements[4] = call.args[4]

(***************************************************************************)
(* Properties of the format machine.                                       *)
(***************************************************************************)
\* C1: round trip.  Formatting a value of the sample succeeds; reading the
\* string back with the same Format gives a value equal to the one
\* formatted; and formatting the value read gives the same string again.
C1_RoundTrip ==
  /\ call.fn = "format" => ret.status = "ok"
  /\ call.fn = "read" => ret.status = "ok" /\ PyEq(ret.val, call.v)
  /\ call.fn = "reformat" => ret = Ok(call.s)

\* C18: Format.read of a string that does not match the representation (a
\* wrong character in place of a literal or of a digit, or an end of input
\* before every fop has matched) raises StopFormat and no other exception.
C18_MismatchStops ==
  call.fn = "read_damaged" => ret.status = "StopFormat"

(***************************************************************************)
(* Properties of the objects a client keeps.                               *)
(***************************************************************************)
\* The elements TimeRep.__init__ checks: all of them, except for a Time,
\* whose offset is not part of the check.
Checked(rep) ==
  IF rep.cls = "Time" THEN SubSeq(rep.elements, 1, Min(3, Len(rep.elements)))
  ELSE rep.elements

Reduced(x) == IsRep(x) => ~InvalidReduction(Checked(x), 1, FALSE)

\* C2: after any sequence of constructions, merges, additions,
\* subtractions and str calls, no representation the client holds or has
\* just been returned has a present element after an absent one among its
\* checked elements.
C2_ReductionInvariant ==
  /\ \A id \in 1..Len(heap) : Reduced(Load(heap, id))
  /\ ret.status = "ok" /\ call.fn \in {"merge", "add", "sub"}
       => Reduced(ret.val)

\* C4: a.merge(b), a + b and a - b leave a and b as they were before the
\* call, whatever the call returns or raises: the same elements, and the
\* same value and signed flag in every unit.
C4_OperandsUnchanged ==
  call.fn \in {"merge", "add", "sub"} =>
    /\ Load(heap, call.a) = Load(call.pre, call.a)
    /\ Load(heap, call.b) = Load(call.pre, call.b)

\* A merge of a representation with a unit that has filled an absent slot
\* of its copy with a zero, found no slot for the unit and returned None.
C4_Witness ==
  /\ call.fn = "merge"
  /\ ret.status = "ok"
  /\ ~Truthy(ret.val)
  /\ "written" \in DOMAIN ret
  /\ \E i \in 1..Len(ret.written.elements) :
       /\ Truthy(ret.written.elements[i])
       /\ ~Truthy(Load(call.pre, call.a).elements[i])

\* C5: str(d) for a Duration d leaves d equal to what it was before the
\* call, a component that was 0 still being 0.
C5_StrKeepsDuration ==
  (call.fn = "str" /\ Load(call.pre, call.a).cls = "Duration") =>
    PyEq(Load(heap, call.a), Load(call.pre, call.a))

(***************************************************************************)
(* Properties of the arithmetic on times and durations and of the merges   *)
(* of units.                                                               *)
(***************************************************************************)
\* The seconds since midnight of a complete time, and the seconds of the
\* hours, minutes and seconds of a duration (an absent one counting 0).
ClockSeconds(rep) ==
  3600 * IntOf(rep.elements[1]) + 60 * IntOf(rep.elements[2])
    + IntOf(rep.elements[3])

SpanSeconds(dur) ==
  3600 * IntOf(dur.elements[4]) + 60 * IntOf(dur.elements[5])
    + IntOf(dur.elements[6])

TimeIs(rep, h, m, s, offset) ==
  /\ IsRep(rep)
  /\ rep.cls = "Time"
  /\ Len(rep.elements) = 4
  /\ rep.elements[1] = MkUnit("Hour", TRUE, h, FALSE)
  /\ rep.elements[2] = MkUnit("Minute", TRUE, m, FALSE)
  /\ rep.elements[3] = MkUnit("Second", TRUE, s, FALSE)
  /\ rep.elements[4] = offset

\* C11: for a complete time and a duration, with T the seconds of the time
\* plus or minus the seconds of the duration's hours, minutes and seconds,
\* the sum has second T mod 60, minute (T div 60) mod 60, hour (T div 3600)
\* mod 24 and the offset of the operand; it is returned when floor(T /
\* 86400) = 0 and is otherwise the value of a TimeUnitOverflow whose carry
\* is floor(T / 86400).
C11_TimeArithmetic ==
  (/\ call.fn = "time_arith"
   /\ \A i \in 1..3 : call.self.elements[i].present) =>
    LET T == ClockSeconds(call.self)
               + Sign(call.op) * SpanSeconds(call.other)
    IN /\ TimeIs(ret.val, (T \div 3600) % 24, (T \div 60) % 60, T % 60,
                 call.self.elements[4])
       /\ IF T \div 86400 = 0 THEN ret.status = "ok"
          ELSE ret.status = "TimeUnitOverflow" /\ ret.carry = T \div 86400

\* 23:20:50 + 0:39:10 raises with the partial value 00:00:00 and carry 1.
C11_Witness ==
  /\ call.fn = "time_arith"
  /\ call.op = "add"
  /\ TimeIs(call.self, 23, 20, 50, call.self.elements[4])
  /\ call.other = Duration(Ints(<<0, 0, 0, 0, 39, 10>>)).val
  /\ ret.status = "TimeUnitOverflow"
  /\ ret.carry = 1
  /\ TimeIs(ret.val, 0, 0, 0, call.self.elements[4])

\* The duration with n more days.
MoreDays(dur, n) ==
  IF n = 0 THEN dur
  ELSE [dur EXCEPT !.elements[3] =
          MkUnit("Days", TRUE, IntOf(dur.elements[3]) + n, FALSE)]

\* C12: for a DateTime of a complete calendar date and a time, and a
\* Duration, datetime +/- duration never raises TimeUnitOverflow nor an
\* error from folding the carry: with (time', carry) the outcome of time
\* +/- duration, it is DateTime(date', time') for date' = date +/- (the
\* duration with |carry| more days).
C12_CarryFolded ==
  call.fn = "datetime_arith" =>
    LET t == Time_add_sub(call.self.elements[2], call.other, call.op)
        carry == IF t.status = "TimeUnitOverflow" THEN Abs(t.carry) ELSE 0
        d == CalendarDate_add_sub(call.self.elements[1],
                                  MoreDays(call.other, carry), call.op)
    IN /\ t.status \in {"ok", "TimeUnitOverflow"}
       /\ ret.status # "TimeUnitOverflow"
       /\ d.status = "ok" => ret = DateTime(d.val, t.val)

\* C13: Duration + Duration is component-wise: a component of the sum is
\* absent when it is absent in both operands, and is otherwise the sum of
\* the two, an absent side counting 0.
C13_DurationSum ==
  (/\ call.fn = "duration_add"
   /\ call.self.cls = "Duration"
   /\ IsRep(call.other) /\ call.other.cls = "Duration") =>
    /\ ret.status = "ok"
    /\ ret.val.cls = "Duration"
    /\ Len(ret.val.elements) = 6
    /\ \A i \in 1..6 :
         LET a == call.self.elements[i]
             b == call.other.elements[i]
         IN ret.val.elements[i] =
              MkUnit(DurationUnits[i], a.present \/ b.present,
                     IntOf(a) + IntOf(b), FALSE)

\* Duration(5,0,4,6) + Duration(0,6,3,2,12) == Duration(5,6,7,8,12).
C13_Witness ==
  /\ call.fn = "duration_add"
  /\ call.self = Duration(Ints(<<5, 0, 4, 6>>)).val
  /\ call.other = Duration(Ints(<<0, 6, 3, 2, 12>>)).val
  /\ ret = Duration(Ints(<<5, 6, 7, 8, 12>>))

IsWeeks(x, present) ==
  IF IsRep(x)
  THEN x.cls = "WeeksDuration" /\ x.elements[1].present = present
  ELSE x.kind = "Weeks" /\ x.present = present

WeeksOf(x) == IF IsRep(x) THEN x.elements[1].value ELSE x.value

\* C14: WeeksDuration(a) + WeeksDuration(b) and WeeksDuration(a) + Weeks(b)
\* are WeeksDuration(a + b), and WeeksDuration(a) + x fails with a
\* TypeError for any x that is neither a WeeksDuration nor a Weeks.
C14_WeeksSum ==
  (/\ call.fn = "duration_add"
   /\ IsWeeks(call.self, TRUE)) =>
    IF IsWeeks(call.other, TRUE)
    THEN ret = Ok(MkRep("WeeksDuration",
                        <<MkUnit("Weeks", TRUE,
                                 WeeksOf(call.self) + WeeksOf(call.other),
                                 FALSE)>>))
    ELSE IsWeeks(call.other, FALSE) \/ ret.status = "TypeError"

\* WeeksDuration(4) + Days(3) has failed with a TypeError.
C14_Witness ==
  /\ call.fn = "duration_add"
  /\ call.self = WeeksDuration(Ints(<<4>>)).val
  /\ call.other = NewUnit("Days", PyInt(3)).val
  /\ ret.status = "TypeError"

\* C15: Duration + WeeksDuration fails for every Duration with a present
\* component: no Duration is returned with the weeks added into it.
C15_WeeksNeverMix ==
  (/\ call.fn = "duration_add"
   /\ call.self.cls = "Duration"
   /\ \E i \in 1..6 : call.self.elements[i].present
   /\ IsRep(call.other) /\ call.other.cls = "WeeksDuration") =>
    ret.status # "ok"

\* The slot of a cardinal kind in a Duration.
SlotOf(kind) == CHOOSE i \in 1..6 : DurationUnits[i] = kind

Later(i, j) == IF i >= j THEN i ELSE j

\* C16: for two cardinals a, b of different kinds with present values,
\* a | b is a Duration with a and b in their slots, 0 in every other slot
\* before the later of the two, and every slot after it absent.
C16_CardinalMerge ==
  (/\ call.fn = "cardinal_or"
   /\ call.self.kind # call.other.kind) =>
    LET i == SlotOf(call.self.kind)
        j == SlotOf(call.other.kind)
    IN /\ ret.status = "ok"
       /\ ret.val.cls = "Duration"
       /\ Len(ret.val.elements) = 6
       /\ \A k \in 1..6 :
            ret.val.elements[k] =
              IF k = i THEN call.self
              ELSE IF k = j THEN call.other
              ELSE MkUnit(DurationUnits[k], k < Later(i, j), 0, FALSE)

\* Hours(15) | Years(1) is the Duration (1, 0, 0, 15, -, -).
C16_Witness ==
  /\ call.fn = "cardinal_or"
  /\ call.self = NewUnit("Hours", PyInt(15)).val
  /\ call.other = NewUnit("Years", PyInt(1)).val
  /\ ret.status = "ok"
  /\ ret.val.elements[1] = call.other
  /\ ret.val.elements[2] = MkUnit("Months", TRUE, 0, FALSE)
  /\ ret.val.elements[3] = MkUnit("Days", TRUE, 0, FALSE)
  /\ ret.val.elements[4] = call.self
  /\ ~ret.val.elements[5].present

\* The pairs of ordinal kinds that a rule of the merge table covers.
Covered(left, right) ==
  \/ left = "Year"
     /\ right \in {"Month", "Week", "DayOfYear", "DayOfMonth", "DayOfWeek"}
  \/ left = "Hour" /\ right = "Minute"

\* C17: merge(a, b) is None for two units of different kinds that no rule
\* of the merge table covers: it never returns one operand and drops the
\* other.
C17_UncoveredMergeIsNone ==
  (/\ call.fn = "unit_merge"
   /\ call.self.kind # call.other.kind
   /\ ~Covered(call.self.kind, call.other.kind)) =>
    ret = Ok(None)

\* The designators of the six components of a duration.
DurationLetters == <<"Y", "M", "D", "H", "M", "S">>

\* The string the rule gives: from the first non-zero component on, every
\* present component with its designator, T before the first of the time
\* components that is written.
RECURSIVE Components(_, _, _)
Components(d, first, j) ==
  IF j > 6 THEN <<>>
  ELSE (IF d.elements[j].present
        THEN (IF j = Later(first, 4) THEN <<"T">> ELSE <<>>)
               \o DecimalDigits(d.elements[j].value)
               \o <<DurationLetters[j]>>
        ELSE <<>>)
         \o Components(d, first, j + 1)

Rendered(d) ==
  LET nonzero == {i \in 1..6 : d.elements[i].present
                                /\ d.elements[i].value # 0}
  IN IF nonzero = {} THEN <<"P", "T", "0", "S">>
     ELSE LET first == CHOOSE i \in nonzero : \A k \in nonzero : i <= k
          IN <<"P">> \o Components(d, first, first)

\* C19: str(Duration) leaves out every leading component that is zero or
\* absent, writes the first non-zero component and every present component
\* after it with its designator, T before the first time component, and is
\* "PT0S" when every component is zero or absent.
C19_LeadingZerosElided ==
  call.fn = "duration_str" =>
    ret.status = "ok" /\ ret.val = Rendered(call.self)

\* Duration(0,2,15,12,30,0) is written "P2M15DT12H30M0S".
C19_Witness ==
  /\ call.fn = "duration_str"
  /\ call.self = Duration(Ints(<<0, 2, 15, 12, 30, 0>>)).val
  /\ ret.status = "ok"
  /\ ret.val = <<"P", "2", "M", "1", "5", "D", "T", "1", "2", "H", "3", "0",
                 "M", "0", "S">>

\* The digits the documentation gives for a fraction f written with the
\* widths (min, max): the digits of f from the tenths on, at most max of
\* them, and zeros up to min digits.
Padded(f, min, max) ==
  LET cut == IF max = NoMax \/ Len(f) <= max THEN f ELSE SubSeq(f, 1, max)
  IN IF Len(cut) >= min THEN cut
     ELSE cut \o [j \in 1..(min - Len(cut)) |-> "0"]

\* C27: an Element with a fractional part (min_frac, max_frac) writes, after
\* the decimal separator, the digits of the fraction of an exact decimal
\* value from the tenths digit on, leading zeros included, cut to at most
\* max_frac digits and padded with zeros to at least min_frac digits; a
\* value whose fraction is zero gets exactly min_frac zeros.
C27_FractionDigits ==
  call.fn = "element_format" =>
    LET f == IF IsDecimal(call.value) THEN call.value.frac ELSE <<>>
    IN /\ ret.status = "ok"
       /\ ret.val =
            <<"1", "2", ",">>
              \o (IF ParseInt(f) = 0 THEN [j \in 1..call.frac_min |-> "0"]
                  ELSE Padded(f, call.frac_min, call.frac_max))

\* C28: a run of k identical digit letters compiles to one Element with
\* (min_digits, max_digits) = (k, k), or (k - 1, unbounded) when the last
\* letter of the run is underlined, and the spelling of the underline with
\* a low line before the letter compiles to the same fop as the spelling
\* with a combining low line after it.
C28_RunWidths ==
  call.fn = "compile" =>
    /\ ret.status = "ok"
    /\ Len(ret.val) = 1
    /\ ret.val[1].op = "Element"
    /\ ret.val[1].cls
         = SlotGet(digits, "RecurringTimeInterval", call.letter)
    /\ ret.val[1].min = (IF call.underlined THEN call.k - 1 ELSE call.k)
    /\ ret.val[1].max = (IF call.underlined THEN NoMax ELSE call.k)
    /\ ret = Format(RunOf(call.letter, call.k, call.underlined, FALSE),
                    "RecurringTimeInterval")

\* "_Y" compiles to Element(Year, (0, None)), as "Y" with a combining low
\* line does.
C28_Witness ==
  /\ call.fn = "compile"
  /\ call.letter = "Y" /\ call.k = 1 /\ call.underlined /\ call.lowline
  /\ ret = Ok(<<Element("Year", 0, NoMax, FALSE)>>)

\* C30: for a complete CalendarDate and a Duration, the loop of
\* CalendarDate.add_sub that brings the day into its month terminates, and
\* at its end 1 <= month <= 12 and 1 <= day <= days_in_month(year, month)
\* for the year and month returned.
C30_NormalisationTerminates ==
  /\ [](call.pc = "done" /\ IsComplete(call.self) =>
          /\ heap.month \in 1..12
          /\ heap.day \in 1..dim(heap.year, heap.month)
          /\ ret.status = "ok"
          /\ [i \in 1..3 |-> ret.val.elements[i].value]
               = <<heap.year, heap.month, heap.day>>
          /\ ret = CalendarDate_add_sub(call.self, call.other, call.op))
  /\ (call.pc = "while") ~> (call.pc = "while" /\ ~Outside)

\* 1983-01-01 - Duration(0, 0, 60): the loop ends after two rounds, at
\* 1982-11-02.
C30_Witness ==
  /\ call.pc = "done" /\ call.op = "sub" /\ call.rounds = 2
  /\ call.self = CalendarDate(Ints(<<1983, 1, 1>>)).val
  /\ call.other = Duration(Ints(<<0, 0, 60>>)).val
  /\ heap = [year |-> 1982, month |-> 11, day |-> 2]

(***************************************************************************)
(* Properties of the format machine run fop by fop.                        *)
(***************************************************************************)
\* C21: while the fops of a read run, no merge is applied to a value read
\* before a hard separator and a value read after it; the two sides are
\* combined by the final fold only.
C21_NoCrossMerge == ~objs.crossed

\* The digits of a string, and the number of digit letters of a time
\* representation.
DigitsOf(s) == SelectSeq(s, IsDigit)

IsTimeLetter(ch) == ch \in {"h", "m", "s"}

\* The representations of a time of three components with an offset.
SignedTimeReprs ==
  {<<"h", "h", "m", "m", "s", "s", PlusMinus, "h", "h", "m", "m">>,
   <<"h", "h", ":", "m", "m", ":", "s", "s", PlusMinus, "h", "h">>}

\* The time a string of such a representation spells: three pairs of
\* digits, a sign, and one or two pairs of digits.
TimeSpelled(s) ==
  LET d == DigitsOf(s)
      pair(j) == PyInt(ParseInt(SubSeq(d, 2 * j - 1, 2 * j)))
      sign == IF \E j \in 1..Len(s) : s[j] = "-" THEN -1 ELSE 1
      offset == UTCOffset(<<PyInt(sign * pair(4).value),
                            IF Len(d) >= 10 THEN pair(5) ELSE None>>).val
  IN Time(<<pair(1), pair(2), pair(3), offset>>).val

\* A step of a read at a signed element pushes the unit read and leaves
\* the entries beneath it; a read that ends has the time spelled.
SignedStep ==
  /\ (/\ call.pc = "ops"
      /\ call.oi <= Len(heap.ops)
      /\ heap.ops[call.oi].op = "Element"
      /\ heap.ops[call.oi].signed
      /\ call'.pc = "ops")
       => /\ Len(heap'.stack) = Len(heap.stack) + 1
          /\ SubSeq(heap'.stack, 1, Len(heap.stack)) = heap.stack
          /\ heap'.stack[Len(heap'.stack)].kind = heap.ops[call.oi].cls
          /\ heap'.stack[Len(heap'.stack)].signed
  /\ (/\ call'.pc = "done"
      /\ call'.fn = "read"
      /\ heap.repr \in SignedTimeReprs
      /\ Len(DigitsOf(call'.arg)) = Len(SelectSeq(heap.repr, IsTimeLetter)))
       => /\ ret'.status = "ok"
          /\ PyEq(ret'.val, TimeSpelled(call'.arg))
          /\ PyEq(TimeSpelled(call'.arg), ret'.val)

\* C22: the unit a signed element reads is pushed without a merge with the
\* entry beneath it; it is combined with the units read after it or by the
\* final fold, so that reading with hhmmss(+-)hhmm gives the time whose
\* hour, minute and second are those read before the sign, with the offset
\* read after it.
C22_SignedNotMerged == [][SignedStep]_vars

\* "152746-0530" read with hhmmss(+-)hhmm is Time(15, 27, 46,
\* UTCOffset(-5, 30)).
C22_Witness ==
  /\ call.fn = "read" /\ call.pc = "done"
  /\ call.arg = <<"1", "5", "2", "7", "4", "6", "-", "0", "5", "3", "0">>
  /\ ret.status = "ok"
  /\ PyEq(ret.val,
          Time(Ints(<<15, 27, 46>>) \o <<UTCOffset(Ints(<<-5, 30>>)).val>>).val)

\* C23: the final fold of a read merges the entries of the stack from the
\* bottom; when every merge gives a value the call returns the value folded
\* over the whole stack, and when a merge gives none the call raises
\* StopFormat and returns nothing.
C23_FoldAllOrStop ==
  (call.fn = "read" /\ call.pc = "done" /\ call.k > 0) =>
    /\ objs.absent => ret.status = "StopFormat"
    /\ ret.status = "ok" =>
         /\ ~objs.absent
         /\ call.k = Len(heap.stack) + 1
         /\ ret.val = call.obj
    /\ ret.status \in {"ok", "StopFormat"} =>
         ret = ReadFold(heap.stack[1], heap.stack, 2)

\* "23+01" read with hh(+-)hh: the fold of the hour and the signed hour
\* gives no value, and the call raises StopFormat.
C23_Witness ==
  /\ call.fn = "read" /\ call.pc = "done" /\ call.k = 2
  /\ Len(heap.stack) = 2
  /\ objs.absent
  /\ ret.status = "StopFormat"

\* The outcome of the call on a Format object just compiled.
Fresh ==
  IF call.fn = "read" THEN Format_read(OpsOf(heap.repr), call.arg)
  ELSE Then(Format_format(OpsOf(heap.repr), call.arg),
            LAMBDA out : Ok(PyStr(out)))

\* C24: after a read has failed, a later read or format call on the same
\* Format object returns what it returns on a Format object just compiled
\* from the same representation: the fops are unchanged, and no input
\* position, stack or pending separator of the failed call is carried over.
C24_FailedReadLeavesNothing ==
  /\ heap.ops = OpsOf(heap.repr)
  /\ (objs.failed /\ call.pc = "done") => ret = Fresh

\* A read that succeeds after a read on the same object has failed.
C24_Witness ==
  /\ objs.failed
  /\ call.fn = "read" /\ call.pc = "done"
  /\ ret.status = "ok"
  /\ Len(heap.stack) >= 2

\* C25: a format call writes "Z" for the UTC designator only when the time
\* formatted has the utc constant as its offset: a time with no offset, or
\* with another offset, is written without "Z".
C25_ZOnlyForUTC ==
  (/\ call.fn = "format" /\ call.pc = "done"
   /\ \E j \in 1..Len(heap.ops) : heap.ops[j] = Z
   /\ call.arg.cls = "Time"
   /\ call.arg.elements[4] # utc)
    => /\ ret.status = "ok"
       /\ \A j \in 1..Len(ret.val.chars) : ret.val.chars[j] # "Z"

\* The literals of the separators of the representation.
SeparatorLits ==
  {heap.ops[j].lit :
     j \in {k \in 1..Len(heap.ops) :
              heap.ops[k].op \in {"Separator", "HardSeparator"}}}

Progress ==
  call.pc = "loop" =>
    \/ call'.pc = "done"
    \/ call'.oi > call.oi
    \/ call'.ei > call.ei
    \/ call.live /\ ~call'.live

\* C29: Format.format terminates: every round of its loop moves on to the
\* next fop or from the current element, or ends the loop, and the loop
\* ends when the fops have run out or when the elements have run out and
\* the current fop is not applicable.
C29_FormatTerminates ==
  /\ [][Progress]_vars
  /\ (call.pc = "loop") ~> (call.pc = "done")

\* Time(23) written with hh:mm: the loop has ended at the fop of the
\* minutes, with no element left.
C29_Witness ==
  /\ call.fn = "format" /\ call.pc = "done"
  /\ call.arg = Time(Ints(<<23>>)).val
  /\ call.oi = 3 /\ ~call.live
  /\ ret.status = "ok"

(***************************************************************************)
(* Properties of concurrent str() calls.                                   *)
(***************************************************************************)
\* str(v) run alone.
AloneStr(v) ==
  IF v.cls = "Duration" THEN Duration___str__(v).val
  ELSE TimeRep___str__(v).val

\* C20: under any interleaving of concurrent str() calls on values of one
\* class, the first calls compiling and caching the Format and the later
\* ones sharing it, every call returns the string it returns when run
\* alone.
C20_ConcurrentStr ==
  \A t \in Threads :
    ret[t].status = "ok" => ret[t].val = AloneStr(objs[t])

\* Every call has returned, each the string of its own value, after at
\* least two of them have formatted with one Format object.
C20_SharedFormat ==
  /\ \A t \in Threads : ret[t] = Ok(AloneStr(objs[t]))
  /\ \E t, u \in Threads : t # u /\ call[t].f # 0 /\ call[t].f = call[u].f

====
